---- MODULE Spec2Model ----
(***************************************************************************)
(* A model of the proactive event/trigger engine of dfcv24/chat_agent:     *)
(*   - EventQueue (event_system.py): typed publish/subscribe dispatch      *)
(*   - TaskManager (task_manager.py): the task store and its trigger scan  *)
(*   - TaskExecutor (task_manager.py) and the threads of ProactiveChatBot  *)
(*     (advanced_chatbot.py): the two scan loops, task execution, the      *)
(*     proactive messages and stop_proactive_mode                          *)
(*   - ChatBot (chatbot.py): chat_loop, its input queue and its timers     *)
(*   - ProactiveChatBot.chat_loop and the health-information dialogue      *)
(*   - ChatEventSystem (event_system.py): the idle-output loop             *)
(* Each subsystem has its own specification over its own variables; the    *)
(* variables of the other subsystems stay at their initial values.         *)
(***************************************************************************)
EXTENDS Integers, Sequences, FiniteSets, TLC

VARIABLES
    \* ---- EventQueue (event_system.py) ----
    subscribers,   \* EventQueue._subscribers: event type -> list of handlers
    queue,         \* EventQueue._queue: the events put by publish, in order
    stack,         \* the active publish calls (innermost last): [ev, type, i]
    delivered,     \* history: handler invocations, in order: [ev, pos]
    returned,      \* history: ids of the events whose publish returned normally
    raisedOut,     \* history: an exception left publish towards the publisher
    \* ---- TaskManager (task_manager.py) ----
    tasks,         \* TaskManager.tasks: the list of Task records
    clock,         \* index of the current instant: datetime.now() is Instants[clock]
    lastOp,        \* history: the TaskManager operation that ran last
    changed,       \* history: the status changes <<task, old, new>> it made
    triggered,     \* history: the list the last check_triggers call returned
    startup_fired, \* history: a check_triggers call has activated a task through
                   \*   a startup trigger
    idle_fired,    \* history: the clock hours in which a check_triggers call
                   \*   activated a task through an idle_check trigger
    \* ---- the threads of ProactiveChatBot (advanced_chatbot.py) ----
    is_running,    \* TaskManager.is_running
    is_monitoring, \* ProactiveChatBot.is_monitoring
    mon,           \* the thread of TaskManager._monitor_loop: [pc, at, pending, triggered]
    pro,           \* the thread of ProactiveChatBot._proactive_monitor: the same fields
    main,          \* the main thread (chat_loop): "loop", "join" or "stopped"
    last_action_time,     \* TaskExecutor.last_action_time: <<action, hour>> -> datetime
    proactive_messages,   \* ProactiveChatBot.proactive_messages
    last_user_input_time, \* ProactiveChatBot.last_user_input_time
    execs,         \* history: the execute_task calls: [task, fresh, deduped]
    scans,         \* history: the activations <<thread, task, at>> check_triggers returned
    emitted,       \* history: the messages send_proactive_message showed the user
    afterStop,     \* history: what the loops did after stop_proactive_mode returned
    \* ---- ChatBot (chatbot.py) ----
    running,        \* ChatBot.running
    input_queue,    \* ChatBot.input_queue
    chat,           \* ChatBot.chat_loop: "init", "loop", "finally" or "returned"
    ended,          \* history: why the while loop of chat_loop was left
    caught,         \* history: errors of process_message that chat_loop caught
    listener,       \* the thread of input_listener: "off" or "on"
    typed,          \* history: the number of lines the user has typed
    question_timer, \* the Timer ChatBot.question_timer refers to
    think_timer,    \* the Timer ChatBot.think_timer refers to
    qcb,            \* the running call of schedule_proactive_question
    tcb,            \* the running call of schedule_thinking
    afterReturn,    \* history: what the timer callbacks did after chat_loop returned
    orphans,        \* history: armed question timers ChatBot.question_timer no longer refers to
    asked,          \* history: proactive questions printed since the last user input
    \* ---- ProactiveChatBot.chat_loop (advanced_chatbot.py) ----
    ploop,          \* ProactiveChatBot.chat_loop: "prompt" or "ended"
    pended,         \* history: why chat_loop ended
    turns,          \* history: the number of lines chat_loop has read
    has_health_task,       \* a task with id "health_management" is stored
    info_collection_stage, \* its context["info_collection_stage"]
    user_profile,          \* the fields of its context["user_profile"] that are set
    \* ---- ChatEventSystem (event_system.py) ----
    es_running,     \* ChatEventSystem.running
    es_tasks,       \* ChatEventSystem.tasks
    idle_threshold, \* ChatEventSystem.idle_threshold
    es_last_input,  \* ChatEventSystem.last_user_input_time
    es_clock,       \* index of the current instant: datetime.now() is EsInstants[es_clock]
    auto,           \* the task of _auto_output_task: [alive, wake]
    auto_outputs,   \* history: the proactive outputs: [at, since, threshold, stopped]
    sent_since,     \* history: proactive outputs since the last user input
    idle_periods,   \* history: the idle periods a user input ended
    \* ---- a function called on its own ----
    args,           \* the arguments of the call
    result,         \* its return value, <<>> before the call
    \* ---- user input handling (chatbot.py, event_system.py) ----
    llm,                \* the state of LLMClient behind ChatBot.get_response
    chat_history,       \* ChatBot.chat_history: [user, bot]
    get_response_calls, \* history: number of calls of ChatBot.get_response
    handled,            \* history: the last input handled: [n, handler, line, action, out, escaped]
    \* ---- the context of the health_management task, statement by statement ----
    ctx_scan,           \* the scan thread in _collect_health_info: [pc, stage]
    ctx_chat            \* the interaction thread in process_health_info: [pc, stage, fields]

busVars == <<subscribers, queue, stack, delivered, returned, raisedOut>>
storeHist == <<triggered, startup_fired, idle_fired>>
storeVars == <<tasks, clock, lastOp, changed, storeHist>>

scanVars == <<is_running, is_monitoring, mon, pro, main, last_action_time,
              proactive_messages, last_user_input_time, execs, scans, emitted, afterStop>>

chatVars == <<running, input_queue, chat, ended, caught, listener, typed, question_timer,
              think_timer, qcb, tcb, afterReturn, orphans, asked>>

healthVars == <<ploop, pended, turns, has_health_task, info_collection_stage, user_profile>>

idleVars == <<es_running, es_tasks, idle_threshold, es_last_input, es_clock, auto,
              auto_outputs, sent_since, idle_periods>>

callVars == <<args, result>>

inputVars == <<llm, chat_history, get_response_calls, handled>>

ctxVars == <<ctx_scan, ctx_chat>>

vars == <<busVars, storeVars, scanVars, chatVars, healthVars, idleVars, callVars, inputVars,
          ctxVars>>

\* What the actions of one subsystem leave alone.
notBus == <<storeVars, scanVars, chatVars, healthVars, idleVars, callVars, inputVars, ctxVars>>
notStore == <<busVars, scanVars, chatVars, healthVars, idleVars, callVars, inputVars, ctxVars>>
notScan == <<busVars, chatVars, healthVars, idleVars, storeHist, callVars, inputVars, ctxVars>>
notChat == <<busVars, storeVars, scanVars, healthVars, idleVars, callVars, inputVars, ctxVars>>
notHealth == <<busVars, storeVars, scanVars, chatVars, idleVars, callVars, inputVars, ctxVars>>
notIdle == <<busVars, storeVars, scanVars, chatVars, healthVars, callVars, inputVars, ctxVars>>
notCall == <<busVars, storeVars, scanVars, chatVars, healthVars, idleVars, inputVars, ctxVars>>
notInput == <<busVars, storeVars, scanVars, healthVars, callVars, ctxVars>>
notCtx == <<busVars, storeVars, scanVars, chatVars, idleVars, callVars, inputVars>>

(***************************************************************************)
(* Bounds                                                                  *)
(***************************************************************************)
MaxSubs == 3      \* handlers subscribed to one event type
MaxEvents == 2    \* events published in one behaviour
MaxTasks == 1     \* tasks in the store
MaxClock == 6     \* instants the clock passes through (TaskManager called directly)
MaxScanClock == 4 \* instants the clock passes through (the running program)
MaxInputs == 3    \* lines the user types into ChatBot
MaxTurns == 4     \* lines ProactiveChatBot.chat_loop reads
MaxIdleClock == 8 \* instants the clock of ChatEventSystem passes through
MaxHandled == 3   \* user inputs handled in one behaviour
MaxStored == 2    \* tasks in a store with several tasks
MaxAdds == 103    \* entries added to the chat history since it was last empty

(***************************************************************************)
(* EventQueue                                                              *)
(***************************************************************************)
\* The event types the model publishes (EventType.USER_INPUT, BOT_OUTPUT).
EventTypes == {"user_input", "bot_output"}

\* Kinds of handler: one that returns, one that raises an Exception, and one
\* that publishes a BOT_OUTPUT event itself (as ChatEventSystem._handle_user_input
\* does through emit_bot_output).
HandlerKinds == {"ok", "raise", "emit"}

\* The handlers that may subscribe to a type: subscribe takes any callable for
\* any type, so a handler of BOT_OUTPUT may publish a BOT_OUTPUT event too.
HandlersFor(t) == HandlerKinds

BusInit ==
    /\ subscribers = [t \in EventTypes |-> <<>>]
    /\ queue = <<>>
    /\ stack = <<>>
    /\ delivered = <<>>
    /\ returned = {}
    /\ raisedOut = FALSE

\* EventQueue.subscribe: append the handler to the type's list.
subscribe(t, h) ==
    /\ queue = <<>>
    /\ stack = <<>>
    /\ Len(subscribers[t]) < MaxSubs
    /\ subscribers' = [subscribers EXCEPT ![t] = Append(@, h)]
    /\ UNCHANGED <<queue, stack, delivered, returned, raisedOut>>
    /\ UNCHANGED notBus

Top == stack[Len(stack)]

\* The for loop of publish moves on to the next subscriber.
Advance(s) == [s EXCEPT ![Len(s)].i = @ + 1]

\* A subscriber raised an Exception inside a publish loop that has no
\* try/except: the exception leaves every active publish.
HandlerRaisedPropagates(s) == [stack |-> <<>>, raisedOut |-> TRUE]

\* A subscriber raised an Exception inside publish's loop: `except Exception`
\* prints it and the loop continues with the next subscriber.
HandlerRaised(s) == [stack |-> Advance(s), raisedOut |-> raisedOut]

\* EventQueue.publish, entry: put the event on the queue and start the loop
\* over the subscribers of its type.
publish(t) ==
    /\ stack = <<>>
    /\ ~raisedOut
    /\ Len(queue) < MaxEvents
    /\ queue' = Append(queue, [id |-> Len(queue) + 1, type |-> t])
    /\ stack' = <<[ev |-> Len(queue) + 1, type |-> t, i |-> 1]>>
    /\ UNCHANGED <<subscribers, delivered, returned, raisedOut>>
    /\ UNCHANGED notBus

\* EventQueue.publish, one iteration of the loop: await subscriber(event).
dispatch ==
    /\ stack # <<>>
    /\ Top.i <= Len(subscribers[Top.type])
    /\ delivered' = Append(delivered, [ev |-> Top.ev, pos |-> Top.i])
    /\ LET h == subscribers[Top.type][Top.i] IN
         CASE h = "ok" ->
                /\ stack' = Advance(stack)
                /\ UNCHANGED <<queue, raisedOut>>
           [] h = "raise" ->
                /\ stack' = HandlerRaised(stack).stack
                /\ raisedOut' = HandlerRaised(stack).raisedOut
                /\ UNCHANGED queue
           [] h = "emit" ->
                IF Len(queue) < MaxEvents
                THEN /\ queue' = Append(queue, [id |-> Len(queue) + 1, type |-> "bot_output"])
                     /\ stack' = Append(Advance(stack),
                                        [ev |-> Len(queue) + 1, type |-> "bot_output", i |-> 1])
                     /\ UNCHANGED raisedOut
                ELSE /\ stack' = Advance(stack)
                     /\ UNCHANGED <<queue, raisedOut>>
    /\ UNCHANGED <<subscribers, returned>>
    /\ UNCHANGED notBus

\* EventQueue.publish, the loop is over: the call returns to its caller.
publishReturn ==
    /\ stack # <<>>
    /\ Top.i > Len(subscribers[Top.type])
    /\ returned' = returned \cup {Top.ev}
    /\ stack' = SubSeq(stack, 1, Len(stack) - 1)
    /\ UNCHANGED <<subscribers, queue, delivered, raisedOut>>
    /\ UNCHANGED notBus

BusNext ==
    \/ \E t \in EventTypes : \E h \in HandlersFor(t) : subscribe(t, h)
    \/ \E t \in EventTypes : publish(t)
    \/ dispatch
    \/ publishReturn

(***************************************************************************)
(* Time: datetime values are seconds since midnight of day 0               *)
(***************************************************************************)
HMS(d, h, m, s) == ((d * 24 + h) * 60 + m) * 60 + s

DayOf(t) == t \div (24 * 3600)      \* datetime.date()
HourOf(t) == (t \div 3600) % 24     \* datetime.hour
MinuteOf(t) == (t \div 60) % 60     \* datetime.minute

\* The instants at which the program reads the clock, in order.
Instants ==
    << HMS(0, 8, 20, 0), HMS(0, 8, 59, 30), HMS(0, 9, 0, 45), HMS(0, 9, 2, 0),
       HMS(0, 10, 0, 0), HMS(1, 9, 0, 15), HMS(1, 9, 30, 0), HMS(2, 9, 0, 15),
       HMS(2, 9, 30, 0) >>

Now == Instants[clock]

\* Optional[datetime]: None is the empty tuple, a value t is <<t>>.
None == <<>>
Some(t) == <<t>>

(***************************************************************************)
(* TaskManager                                                             *)
(***************************************************************************)
TaskStatus == {"pending", "active", "completed", "failed", "cancelled"}
TaskType == {"daily", "short_term", "long_term", "recurring"}

\* Task ids are tuples: <<"t1">> is the string "t1", BlankId the empty string and
\* GeneratedId(t, n) the string f"task_{t:%Y%m%d_%H%M%S}_{n}" add_task builds.
BlankId == <<>>
GeneratedId(t, n) == <<"task", t, n>>
TaskIds == {<<"t1">>, <<"t2">>, GeneratedId(Instants[1], 0)}

\* The tasks callers hand to add_task (and tasks.json holds at start).
TaskTemplates ==
    { [id |-> <<"t1">>, task_type |-> "daily", status |-> "pending", completed_at |-> None,
       triggers |-> <<"time:09:00">>, actions |-> <<"send_greeting">>],
      [id |-> <<"t2">>, task_type |-> "recurring", status |-> "pending", completed_at |-> None,
       triggers |-> <<"time:09:01">>, actions |-> <<"send_greeting">>],
      [id |-> BlankId, task_type |-> "short_term", status |-> "pending", completed_at |-> None,
       triggers |-> <<>>, actions |-> <<>>] }

\* The parse of a trigger string in check_triggers: the prefix test, and for
\* "time:" the split at ":" and int() of the parts (no parts when there is no
\* ":" or int() raises), for "date:" the day datetime.fromisoformat gives (no
\* parts when it raises).
ParseTrigger(tr) ==
    CASE tr = "time:09:00" -> [kind |-> "time", parts |-> <<9, 0>>]
      [] tr = "time:09:01" -> [kind |-> "time", parts |-> <<9, 1>>]
      [] tr = "time:25:00" -> [kind |-> "time", parts |-> <<25, 0>>]
      [] tr = "time:9:0:0" -> [kind |-> "time", parts |-> <<9, 0, 0>>]
      [] tr = "time:ab:cd" -> [kind |-> "time", parts |-> <<>>]
      [] tr = "time:0900" -> [kind |-> "time", parts |-> <<>>]
      [] tr = "date:day0" -> [kind |-> "date", parts |-> <<0>>]
      [] tr = "date:soon" -> [kind |-> "date", parts |-> <<>>]
      [] tr = "startup" -> [kind |-> "startup", parts |-> <<>>]
      [] tr = "idle_check" -> [kind |-> "idle_check", parts |-> <<>>]
      [] OTHER -> [kind |-> "unknown", parts |-> <<>>]

Abs(x) == IF x < 0 THEN -x ELSE x

\* The instant of hour:minute on the day of `t`, or on the day after it.
\* check_triggers never looks at the day after.
trigger_time_nearest(hour, minute, t) ==
    IF t - HMS(DayOf(t), hour, minute, 0) > 12 * 3600
    THEN HMS(DayOf(t) + 1, hour, minute, 0)
    ELSE HMS(DayOf(t), hour, minute, 0)

\* trigger_time of check_triggers: now.replace(hour=hour, minute=minute,
\* second=0, microsecond=0), the instant of hour:minute on the day of `t`.
trigger_time(hour, minute, t) == HMS(DayOf(t), hour, minute, 0)

\* A test that accepts only the 60 seconds after the trigger time.
TimeMatchesAfter(hour, minute, t) ==
    /\ hour \in 0..23 /\ minute \in 0..59
    /\ t - HMS(DayOf(t), hour, minute, 0) \in 0..60

\* The test of a "time:" trigger with the parsed hour and minute: replace
\* raises ValueError for an hour or minute out of range (the bare except skips
\* the trigger), otherwise abs((now - trigger_time).total_seconds()) <= 60.
TimeMatches(hour, minute, t) ==
    /\ hour \in 0..23 /\ minute \in 0..59
    /\ Abs(t - trigger_time(hour, minute, t)) <= 60

\* One trigger of a task against `t` (check_triggers, the body of the loop
\* over task.triggers): TRUE when it sets should_trigger.
TriggerMatches(tr, t) ==
    LET p == ParseTrigger(tr) IN
    CASE p.kind = "time" ->
            /\ Len(p.parts) = 2
            /\ TimeMatches(p.parts[1], p.parts[2], t)
      [] p.kind = "date" ->
            /\ Len(p.parts) = 1
            /\ DayOf(t) = p.parts[1]
      [] p.kind = "startup" -> TRUE
      [] p.kind = "idle_check" -> MinuteOf(t) = 0
      [] OTHER -> FALSE

\* The trigger is one check_triggers cannot parse: a "time:" or "date:" string
\* whose parse raises or has no hour and minute, or a string of no known kind.
Malformed(tr) ==
    LET p == ParseTrigger(tr) IN
    CASE p.kind = "time" -> ~(Len(p.parts) = 2 /\ p.parts[1] \in 0..23 /\ p.parts[2] \in 0..59)
      [] p.kind = "date" -> Len(p.parts) # 1
      [] p.kind \in {"startup", "idle_check"} -> FALSE
      [] OTHER -> TRUE

\* A loop over the triggers that ends at the first malformed one (the task is
\* then not looked at further).
ShouldTriggerUntilMalformed(task, t) ==
    \E k \in 1..Len(task.triggers) :
        /\ TriggerMatches(task.triggers[k], t)
        /\ \A j \in 1..(k - 1) : ~Malformed(task.triggers[j])

\* should_trigger of check_triggers for one task.
ShouldTrigger(task, t) ==
    \E k \in 1..Len(task.triggers) : TriggerMatches(task.triggers[k], t)

\* The triggers of the task that match at `t`.
Matching(task, t) == {k \in 1..Len(task.triggers) : TriggerMatches(task.triggers[k], t)}

\* The trigger at which the loop over task.triggers breaks: the first one that
\* matches (0 when none does).
FirstMatch(task, t) ==
    IF Matching(task, t) = {} THEN 0
    ELSE CHOOSE k \in Matching(task, t) : \A j \in Matching(task, t) : k <= j

\* The kind of the trigger that set should_trigger.
FiredBy(task, t) ==
    IF FirstMatch(task, t) = 0 THEN "none"
    ELSE ParseTrigger(task.triggers[FirstMatch(task, t)]).kind

\* An append to triggered_tasks at every matching trigger, inside the loop
\* over the triggers and without break.
AppendPerMatch(task, t) == Cardinality(Matching(task, t))

\* The number of times check_triggers appends the task to triggered_tasks: the
\* loop over the triggers only sets should_trigger and breaks, and the append
\* after the loop runs once when the flag is set.
AppendCount(task, t) == IF ShouldTrigger(task, t) THEN 1 ELSE 0

\* A get_pending_tasks that does not filter by status: every task.
AllTaskIndices(ts) == {i \in 1..Len(ts) : TRUE}

\* TaskManager.get_pending_tasks: the (indices of the) tasks whose status is PENDING.
get_pending_tasks(ts) == {i \in 1..Len(ts) : ts[i].status = "pending"}

\* TaskManager.get_task: the first task with the id (0 when there is none).
get_task(ts, id) ==
    IF \E i \in 1..Len(ts) : ts[i].id = id
    THEN CHOOSE i \in 1..Len(ts) : ts[i].id = id /\ \A j \in 1..(i - 1) : ts[j].id # id
    ELSE 0

\* The indices of a set of tasks in list order (the list get_pending_tasks builds).
RECURSIVE InOrder(_, _)
InOrder(S, n) ==
    IF n = 0 THEN <<>>
    ELSE IF n \in S THEN Append(InOrder(S, n - 1), n) ELSE InOrder(S, n - 1)

\* x repeated n times.
RECURSIVE Repeat(_, _)
Repeat(x, n) == IF n = 0 THEN <<>> ELSE <<x>> \o Repeat(x, n - 1)

\* triggered_tasks of check_triggers: the loop over the pending tasks appends
\* each task whose should_trigger is set.
RECURSIVE TriggeredFrom(_, _, _)
TriggeredFrom(pending, ts, t) ==
    IF pending = <<>> THEN <<>>
    ELSE Repeat(Head(pending), AppendCount(ts[Head(pending)], t))
             \o TriggeredFrom(Tail(pending), ts, t)

\* The clock hour of an instant (date and hour).
ClockHour(t) == t \div 3600

\* reset_daily_tasks, the test it makes on one task.
ShouldReset(task, t) ==
    /\ task.task_type = "daily"
    /\ task.status = "completed"
    /\ task.completed_at # None
    /\ DayOf(task.completed_at[1]) < DayOf(t)

\* A reset that leaves completed_at as it is.
ResetStatusOnly(task) == [task EXCEPT !.status = "pending"]

\* reset_daily_tasks, what it does to a task that passes the test.
ResetTask(task) == [task EXCEPT !.status = "pending", !.completed_at = None]

\* reset_daily_tasks as a function of the task list and today's instant.
ResetDaily(ts, t) ==
    [i \in 1..Len(ts) |-> IF ShouldReset(ts[i], t) THEN ResetTask(ts[i]) ELSE ts[i]]

\* The status changes between two values of the task list.
StatusChanges(old, new) ==
    {<<i, old[i].status, new[i].status>> : i \in {j \in 1..Len(old) : old[j].status # new[j].status}}

\* The process has just started: nothing has called check_triggers yet.
StoreHistInit ==
    /\ triggered = <<>>
    /\ startup_fired = FALSE
    /\ idle_fired = {}

StoreInit ==
    /\ tasks = <<>>
    /\ clock = 1
    /\ lastOp = "init"
    /\ changed = {}
    /\ StoreHistInit

\* TaskManager.add_task.
add_task(task) ==
    /\ Len(tasks) < MaxTasks
    /\ tasks' = Append(tasks, IF task.id = BlankId
                               THEN [task EXCEPT !.id = GeneratedId(Now, Len(tasks))]
                               ELSE task)
    /\ lastOp' = "add_task"
    /\ changed' = StatusChanges(tasks, tasks')
    /\ triggered' = <<>>
    /\ UNCHANGED <<clock, startup_fired, idle_fired>>
    /\ UNCHANGED notStore

\* TaskManager.update_task_status.
update_task_status(id, status) ==
    /\ LET i == get_task(tasks, id) IN
         IF i = 0
         THEN tasks' = tasks
         ELSE tasks' = [tasks EXCEPT ![i].status = status,
                                     ![i].completed_at =
                                         IF status = "completed" THEN Some(Now) ELSE @]
    /\ lastOp' = "update_task_status"
    /\ changed' = StatusChanges(tasks, tasks')
    /\ triggered' = <<>>
    /\ UNCHANGED <<clock, startup_fired, idle_fired>>
    /\ UNCHANGED notStore

\* TaskManager.check_triggers, run without interruption: every pending task with
\* a matching trigger becomes ACTIVE.
check_triggers ==
    /\ tasks' = [i \in 1..Len(tasks) |->
                    IF i \in get_pending_tasks(tasks) /\ ShouldTrigger(tasks[i], Now)
                    THEN [tasks[i] EXCEPT !.status = "active"]
                    ELSE tasks[i]]
    /\ lastOp' = "check_triggers"
    /\ changed' = StatusChanges(tasks, tasks')
    /\ triggered' = TriggeredFrom(InOrder(get_pending_tasks(tasks), Len(tasks)), tasks, Now)
    /\ startup_fired' =
           (startup_fired \/ \E i \in get_pending_tasks(tasks) : FiredBy(tasks[i], Now) = "startup")
    /\ idle_fired' = idle_fired \cup
           {ClockHour(Now) : i \in {j \in get_pending_tasks(tasks) :
                                        FiredBy(tasks[j], Now) = "idle_check"}}
    /\ UNCHANGED clock
    /\ UNCHANGED notStore

\* TaskManager.reset_daily_tasks.
reset_daily_tasks ==
    /\ tasks' = ResetDaily(tasks, Now)
    /\ lastOp' = "reset_daily_tasks"
    /\ changed' = StatusChanges(tasks, tasks')
    /\ triggered' = <<>>
    /\ UNCHANGED <<clock, startup_fired, idle_fired>>
    /\ UNCHANGED notStore

\* Time passes: the next datetime.now() is the next instant.
Tick ==
    /\ clock < MaxClock
    /\ clock' = clock + 1
    /\ UNCHANGED <<tasks, lastOp, changed, storeHist>>
    /\ UNCHANGED notStore

StoreNext ==
    \/ \E task \in TaskTemplates : add_task(task)
    \/ \E id \in TaskIds : \E status \in TaskStatus : update_task_status(id, status)
    \/ check_triggers
    \/ reset_daily_tasks
    \/ Tick

\* Tasks with the other kinds of trigger: "startup", "idle_check", and one
\* with two triggers, which both match at 09:00:45 and at no earlier instant.
TriggerTemplates ==
    { [id |-> <<"s1">>, task_type |-> "daily", status |-> "pending", completed_at |-> None,
       triggers |-> <<"startup">>, actions |-> <<"send_greeting">>],
      [id |-> <<"i1">>, task_type |-> "recurring", status |-> "pending", completed_at |-> None,
       triggers |-> <<"idle_check">>, actions |-> <<"send_greeting">>],
      [id |-> <<"m1">>, task_type |-> "short_term", status |-> "pending", completed_at |-> None,
       triggers |-> <<"time:09:01", "idle_check">>, actions |-> <<"send_greeting">>] }

TriggerIds == {<<"s1">>, <<"i1">>, <<"m1">>}

\* The statuses the callers of update_task_status in the program pass
\* (COMPLETED after an execution) and the one that makes a task pending again.
CallerStatuses == {"pending", "completed"}

\* The TaskManager operations on tasks with these triggers.
TriggerNext ==
    \/ \E task \in TriggerTemplates : add_task(task)
    \/ \E id \in TriggerIds : \E status \in CallerStatuses : update_task_status(id, status)
    \/ check_triggers
    \/ reset_daily_tasks
    \/ Tick

(***************************************************************************)
(* TaskManager holding several tasks, some with triggers that do not parse *)
(***************************************************************************)
\* The tasks handed to add_task here: two with the same caller-supplied id (the
\* first with a malformed trigger before a valid one, the second with
\* malformed triggers only), one with a malformed trigger before a date and
\* one without an id.
ManyTemplates ==
    { [id |-> <<"t1">>, task_type |-> "daily", status |-> "pending", completed_at |-> None,
       triggers |-> <<"time:ab:cd", "time:09:00">>, actions |-> <<"send_greeting">>],
      [id |-> <<"t1">>, task_type |-> "recurring", status |-> "pending", completed_at |-> None,
       triggers |-> <<"time:25:00", "date:soon", "time:0900", "every day">>,
       actions |-> <<"send_greeting">>],
      [id |-> <<"t2">>, task_type |-> "recurring", status |-> "pending", completed_at |-> None,
       triggers |-> <<"time:9:0:0", "date:day0">>, actions |-> <<"send_greeting">>],
      [id |-> BlankId, task_type |-> "short_term", status |-> "pending", completed_at |-> None,
       triggers |-> <<"time:09:00">>, actions |-> <<>>] }

\* TaskManager.add_task on a store that holds up to MaxStored tasks.
add_task_many(task) ==
    /\ Len(tasks) < MaxStored
    /\ tasks' = Append(tasks, IF task.id = BlankId
                               THEN [task EXCEPT !.id = GeneratedId(Now, Len(tasks))]
                               ELSE task)
    /\ lastOp' = "add_task"
    /\ changed' = StatusChanges(tasks, tasks')
    /\ triggered' = <<>>
    /\ UNCHANGED <<clock, startup_fired, idle_fired>>
    /\ UNCHANGED notStore

ManyNext ==
    \/ \E task \in ManyTemplates : add_task_many(task)
    \/ check_triggers
    \/ Tick

(***************************************************************************)
(* check_triggers, the test of one "time:HH:MM" trigger, called on its own *)
(***************************************************************************)
\* The hours and minutes of the trigger, and the scan times: around the
\* trigger times, at the edges of the 60-second window and around midnight.
Hours == {0, 9, 23}
Minutes == {0, 1, 59}
ScanTimes ==
    {HMS(1, h, m, sec) : h \in {0, 8, 9, 23}, m \in {0, 1, 58, 59}, sec \in {0, 1, 30, 59}}

\* No function is being called on its own.
CallIdle ==
    /\ args = [fn |-> "none"]
    /\ result = None

\* The trigger "time:HH:MM" is about to be tested at the scan time `now`.
TimeCallInit ==
    /\ args \in [fn : {"time_trigger"}, hour : Hours, minute : Minutes, now : ScanTimes]
    /\ result = None

\* check_triggers, lines 185-190: the test of the parsed trigger against now.
match_time_trigger ==
    /\ args.fn = "time_trigger"
    /\ result = None
    /\ result' = Some(TimeMatches(args.hour, args.minute, args.now))
    /\ UNCHANGED args
    /\ UNCHANGED notCall

TimeNext == match_time_trigger

(***************************************************************************)
(* TaskExecutor                                                            *)
(***************************************************************************)
\* The action identifiers _execute_action knows (the ones the model uses).
KnownActions == {"send_greeting"}

\* TaskExecutor._execute_action at time t with the dedupe map lat: the result
\* (TRUE when a message is returned, FALSE for None) and the map afterwards.
\* The key is f"{action}_{now.hour}".
ExecuteAction(action, lat, t) ==
    LET key == <<action, HourOf(t)>> IN
    IF key \in DOMAIN lat /\ t - lat[key] < 3600
    THEN [result |-> FALSE, deduped |-> TRUE, lat |-> lat]
    ELSE [result |-> action \in KnownActions, deduped |-> FALSE,
          lat |-> [k \in DOMAIN lat \cup {key} |-> IF k = key THEN t ELSE lat[k]]]

\* The loop of execute_task over task.actions from position k on: the actions
\* that returned a message, the ones the dedupe suppressed, and the map.
RECURSIVE ExecuteFrom(_, _, _, _)
ExecuteFrom(actions, k, lat, t) ==
    IF k > Len(actions)
    THEN [results |-> <<>>, deduped |-> {}, lat |-> lat]
    ELSE LET one == ExecuteAction(actions[k], lat, t)
             rest == ExecuteFrom(actions, k + 1, one.lat, t)
         IN [results |-> IF one.result THEN <<actions[k]>> \o rest.results ELSE rest.results,
             deduped |-> IF one.deduped THEN {actions[k]} \cup rest.deduped ELSE rest.deduped,
             lat |-> rest.lat]

\* TaskExecutor.execute_task: the message is the joined results, or the fixed
\* text "任务执行完成" (here "done") when no action returned one.
execute_task(task, lat, t) ==
    LET r == ExecuteFrom(task.actions, 1, lat, t) IN
    [message |-> IF r.results # <<>> THEN "results" ELSE "done",
     results |-> r.results, deduped |-> r.deduped, lat |-> r.lat]

(***************************************************************************)
(* ProactiveChatBot: the scan threads, the proactive messages, stop        *)
(***************************************************************************)
\* The tasks tasks.json holds when the program starts.
StoredTasks ==
    << [id |-> <<"t1">>, task_type |-> "daily", status |-> "pending", completed_at |-> None,
        triggers |-> <<"time:09:00">>, actions |-> <<"send_greeting">>],
       [id |-> <<"t2">>, task_type |-> "recurring", status |-> "pending", completed_at |-> None,
        triggers |-> <<"time:09:01">>, actions |-> <<"send_greeting">>] >>

NumStored == Len(StoredTasks)

ThreadInit == [pc |-> "test", at |-> 0, pending |-> <<>>, triggered |-> <<>>]

ScanIdle ==
    /\ is_running = FALSE
    /\ is_monitoring = FALSE
    /\ mon = ThreadInit
    /\ pro = ThreadInit
    /\ main = "loop"
    /\ last_action_time = << >>
    /\ proactive_messages = <<>>
    /\ last_user_input_time = 0
    /\ execs = <<>>
    /\ scans = {}
    /\ emitted = <<>>
    /\ afterStop = {}

\* ProactiveChatBot.__init__ has run: the tasks are loaded, and
\* start_proactive_mode has started both threads.
ScanInit ==
    /\ tasks = StoredTasks
    /\ clock = 1
    /\ lastOp = "init"
    /\ changed = {}
    /\ StoreHistInit
    /\ is_running = TRUE
    /\ is_monitoring = TRUE
    /\ mon = ThreadInit
    /\ pro = ThreadInit
    /\ main = "loop"
    /\ last_action_time = << >>
    /\ proactive_messages = <<>>
    /\ last_user_input_time = Instants[1]
    /\ execs = <<>>
    /\ scans = {}
    /\ emitted = <<>>
    /\ afterStop = {}

\* ProactiveChatBot._is_user_idle.
is_user_idle(minutes) == Now - last_user_input_time > minutes * 60

\* What a loop does after stop_proactive_mode has returned is recorded.
Note(what) == IF main = "stopped" THEN afterStop \cup {what} ELSE afterStop

\* The while test of a scan loop, then the start of check_triggers: now is read
\* and get_pending_tasks builds the list of pending tasks.
ScanStart(th, flag) ==
    IF ~flag
    THEN [ThreadInit EXCEPT !.pc = "done"]
    ELSE [th EXCEPT !.pc = "scan", !.at = Now, !.triggered = <<>>,
                    !.pending = InOrder(get_pending_tasks(tasks), Len(tasks))]

\* check_triggers, one iteration of the loop over the list built at its start.
ScanOne(th) ==
    LET i == Head(th.pending) IN
    IF ShouldTrigger(tasks[i], th.at)
    THEN [th |-> [th EXCEPT !.pending = Tail(@), !.triggered = Append(@, i)],
          tasks |-> [tasks EXCEPT ![i].status = "active"], hit |-> {i}]
    ELSE [th |-> [th EXCEPT !.pending = Tail(@)], tasks |-> tasks, hit |-> {}]

\* TaskManager._monitor_loop: `while self.is_running`, entering check_triggers.
monTest ==
    /\ mon.pc = "test"
    /\ mon' = ScanStart(mon, is_running)
    /\ afterStop' = IF is_running THEN Note("scan") ELSE afterStop
    /\ UNCHANGED <<tasks, clock, lastOp, changed, is_running, is_monitoring, pro, main,
                   last_action_time, proactive_messages, last_user_input_time, execs,
                   scans, emitted>>
    /\ UNCHANGED notScan

\* TaskManager._monitor_loop inside check_triggers: the next pending task.
monScan ==
    /\ mon.pc = "scan"
    /\ mon.pending # <<>>
    /\ mon' = ScanOne(mon).th
    /\ tasks' = ScanOne(mon).tasks
    /\ scans' = scans \cup {<<"mon", i, mon.at>> : i \in ScanOne(mon).hit}
    /\ afterStop' = Note("scan")
    /\ UNCHANGED <<clock, lastOp, changed, is_running, is_monitoring, pro, main,
                   last_action_time, proactive_messages, last_user_input_time, execs,
                   emitted>>
    /\ UNCHANGED notScan

\* TaskManager._monitor_loop: check_triggers returns, the count is printed and
\* the thread sleeps 60 seconds.
monSleep ==
    /\ mon.pc = "scan"
    /\ mon.pending = <<>>
    /\ mon' = [ThreadInit EXCEPT !.pc = "sleep"]
    /\ UNCHANGED <<tasks, clock, lastOp, changed, is_running, is_monitoring, pro, main,
                   last_action_time, proactive_messages, last_user_input_time, execs,
                   scans, emitted, afterStop>>
    /\ UNCHANGED notScan

\* ProactiveChatBot._proactive_monitor: `while self.is_monitoring`, entering
\* check_triggers.
proTest ==
    /\ pro.pc = "test"
    /\ pro' = ScanStart(pro, is_monitoring)
    /\ afterStop' = IF is_monitoring THEN Note("scan") ELSE afterStop
    /\ UNCHANGED <<tasks, clock, lastOp, changed, is_running, is_monitoring, mon, main,
                   last_action_time, proactive_messages, last_user_input_time, execs,
                   scans, emitted>>
    /\ UNCHANGED notScan

\* ProactiveChatBot._proactive_monitor inside check_triggers: the next pending task.
proScan ==
    /\ pro.pc = "scan"
    /\ pro.pending # <<>>
    /\ pro' = ScanOne(pro).th
    /\ tasks' = ScanOne(pro).tasks
    /\ scans' = scans \cup {<<"pro", i, pro.at>> : i \in ScanOne(pro).hit}
    /\ afterStop' = Note("scan")
    /\ UNCHANGED <<clock, lastOp, changed, is_running, is_monitoring, mon, main,
                   last_action_time, proactive_messages, last_user_input_time, execs,
                   emitted>>
    /\ UNCHANGED notScan

\* ProactiveChatBot._proactive_monitor: check_triggers returns its list.
proReturn ==
    /\ pro.pc = "scan"
    /\ pro.pending = <<>>
    /\ pro' = [pro EXCEPT !.pc = "exec"]
    /\ UNCHANGED <<tasks, clock, lastOp, changed, is_running, is_monitoring, mon, main,
                   last_action_time, proactive_messages, last_user_input_time, execs,
                   scans, emitted, afterStop>>
    /\ UNCHANGED notScan

\* ProactiveChatBot.send_proactive_message: the message is shown to the user and
\* the list of pending proactive messages is emptied.
send_proactive_message(message) ==
    /\ emitted' = Append(emitted, message)
    /\ proactive_messages' = <<>>

\* ProactiveChatBot._proactive_monitor, the loop over the triggered tasks:
\* execute_task on the next one, and its message is appended to
\* proactive_messages.
proExec ==
    /\ pro.pc = "exec"
    /\ pro.triggered # <<>>
    /\ LET i == Head(pro.triggered)
           r == execute_task(tasks[i], last_action_time, Now)
       IN /\ last_action_time' = r.lat
          /\ execs' = Append(execs, [task |-> i, results |-> r.results, deduped |-> r.deduped])
          /\ proactive_messages' =
                 Append(proactive_messages, [exec |-> Len(execs) + 1, text |-> r.message])
    /\ pro' = [pro EXCEPT !.pc = "send"]
    /\ afterStop' = Note("execute")
    /\ UNCHANGED <<tasks, clock, lastOp, changed, is_running, is_monitoring, mon, main,
                   last_user_input_time, scans, emitted>>
    /\ UNCHANGED notScan

\* ProactiveChatBot._proactive_monitor, the rest of the loop body: the message
\* is sent at once when the user is idle, and the task is marked COMPLETED
\* (update_task_status).
proSend ==
    /\ pro.pc = "send"
    /\ LET i == Head(pro.triggered)
           message == [exec |-> Len(execs), text |-> IF execs[Len(execs)].results # <<>>
                                                    THEN "results" ELSE "done"]
           j == get_task(tasks, tasks[i].id)
       IN /\ IF is_user_idle(5)
             THEN send_proactive_message(message) /\ afterStop' = Note("output")
             ELSE UNCHANGED <<emitted, proactive_messages, afterStop>>
          /\ tasks' = [tasks EXCEPT ![j].status = "completed",
                                    ![j].completed_at = Some(Now)]
    /\ pro' = [pro EXCEPT !.pc = "exec", !.triggered = Tail(@)]
    /\ UNCHANGED <<clock, lastOp, changed, is_running, is_monitoring, mon, main,
                   last_action_time, last_user_input_time, execs, scans>>
    /\ UNCHANGED notScan

\* ProactiveChatBot._proactive_monitor after the loop: an idle message when the
\* user has been idle for 30 minutes, then time.sleep(60).
proIdle ==
    /\ pro.pc = "exec"
    /\ pro.triggered = <<>>
    /\ IF is_user_idle(30)
       THEN /\ send_proactive_message([exec |-> 0, text |-> "idle"])
            /\ last_user_input_time' = Now
            /\ afterStop' = Note("output")
       ELSE UNCHANGED <<emitted, proactive_messages, last_user_input_time, afterStop>>
    /\ pro' = [ThreadInit EXCEPT !.pc = "sleep"]
    /\ UNCHANGED <<tasks, clock, lastOp, changed, is_running, is_monitoring, mon, main,
                   last_action_time, execs, scans>>
    /\ UNCHANGED notScan

\* ProactiveChatBot.chat_loop, top of the loop: a pending proactive message is
\* popped and sent when the user has been idle for a minute.
chatLoopPop ==
    /\ main = "loop"
    /\ proactive_messages # <<>>
    /\ is_user_idle(1)
    /\ send_proactive_message(Head(proactive_messages))
    /\ UNCHANGED <<tasks, clock, lastOp, changed, is_running, is_monitoring, mon, pro, main,
                   last_action_time, last_user_input_time, execs, scans, afterStop>>
    /\ UNCHANGED notScan

\* ProactiveChatBot.chat_loop: the user typed a line that is no exit command.
userInput ==
    /\ main = "loop"
    /\ last_user_input_time' = Now
    /\ UNCHANGED <<tasks, clock, lastOp, changed, is_running, is_monitoring, mon, pro, main,
                   last_action_time, proactive_messages, execs, scans, emitted, afterStop>>
    /\ UNCHANGED notScan

\* ProactiveChatBot.chat_loop: the user typed an exit command, and
\* stop_proactive_mode calls TaskManager.stop_monitoring, which clears
\* is_running and then waits in monitor_thread.join().
userExit ==
    /\ main = "loop"
    /\ last_user_input_time' = Now
    /\ is_running' = FALSE
    /\ main' = "join"
    /\ UNCHANGED <<tasks, clock, lastOp, changed, is_monitoring, mon, pro,
                   last_action_time, proactive_messages, execs, scans, emitted, afterStop>>
    /\ UNCHANGED notScan

\* TaskManager.stop_monitoring: monitor_thread.join() returns when the thread of
\* _monitor_loop has ended; stop_proactive_mode then clears is_monitoring and
\* returns.
stopReturn ==
    /\ main = "join"
    /\ mon.pc = "done"
    /\ is_monitoring' = FALSE
    /\ main' = "stopped"
    /\ UNCHANGED <<tasks, clock, lastOp, changed, is_running, mon, pro,
                   last_action_time, proactive_messages, last_user_input_time, execs,
                   scans, emitted, afterStop>>
    /\ UNCHANGED notScan

\* time.sleep(60) of a scan loop ends when the clock moves on: consecutive
\* instants are at least 60 seconds apart.
Woken(th) == IF th.pc = "sleep" THEN [th EXCEPT !.pc = "test"] ELSE th

\* Time passes in the running program; the sleeping loops wake up.
scanTick ==
    /\ clock < MaxScanClock
    /\ clock' = clock + 1
    /\ mon' = Woken(mon)
    /\ pro' = Woken(pro)
    /\ UNCHANGED <<tasks, lastOp, changed, is_running, is_monitoring, main,
                   last_action_time, proactive_messages, last_user_input_time, execs,
                   scans, emitted, afterStop>>
    /\ UNCHANGED notScan

\* Time passes beyond the instants above: the loops keep waking up, at a time
\* of day (the last instant) at which no trigger of the stored tasks matches.
scanLater ==
    /\ clock >= MaxScanClock
    /\ mon.pc = "sleep" \/ pro.pc = "sleep"
    /\ clock' = Len(Instants)
    /\ mon' = Woken(mon)
    /\ pro' = Woken(pro)
    /\ UNCHANGED <<tasks, lastOp, changed, is_running, is_monitoring, main,
                   last_action_time, proactive_messages, last_user_input_time, execs,
                   scans, emitted, afterStop>>
    /\ UNCHANGED notScan

MonNext == monTest \/ monScan \/ monSleep

ProNext == proTest \/ proScan \/ proReturn \/ proExec \/ proSend \/ proIdle

MainNext == chatLoopPop \/ userInput \/ userExit \/ stopReturn

ScanNext ==
    \/ MonNext
    \/ ProNext
    \/ MainNext
    \/ scanTick

(***************************************************************************)
(* ChatBot: chat_loop, the input listener, the question and think timers   *)
(***************************************************************************)
\* ChatConfig.EXIT_COMMANDS, CLEAR_COMMANDS and HELP_COMMANDS (one of each), and
\* the sentinel input_listener puts on the queue when the input stream closes.
EXIT_COMMANDS == {"quit"}
CLEAR_COMMANDS == {"clear"}
HELP_COMMANDS == {"help"}
ExitSentinel == "__EXIT__"

\* The attributes of ChatConfig that the timer code reads and the class defines;
\* it defines neither AUTO_ASK_QUESTIONS nor ENABLE_KNOWLEDGE_LEARNING.
ConfigAttributesComplete ==
    {"QUESTION_CHECK_INTERVAL", "PROACTIVE_QUESTION_DELAY", "MAX_IDLE_TIME",
     "AUTO_ASK_QUESTIONS", "ENABLE_KNOWLEDGE_LEARNING"}

ConfigAttributes == {"QUESTION_CHECK_INTERVAL", "PROACTIVE_QUESTION_DELAY", "MAX_IDLE_TIME"}

\* self.config.<name> can be read without AttributeError.
HasAttr(name) == name \in ConfigAttributes

\* The lines a user types: a message, the commands, and the sentinel's own text.
Lines == {"hello"} \cup EXIT_COMMANDS \cup CLEAR_COMMANDS \cup HELP_COMMANDS \cup {ExitSentinel}

\* A threading.Timer is "new" (created, not started), "armed" (started, waiting),
\* "fired" (its interval is over and it calls its function) or "cancelled".
\* Timer.cancel stops a timer that has not fired yet and does nothing to one
\* that has.
Cancel(timer) == IF timer \in {"new", "armed"} THEN "cancelled" ELSE timer

\* Timer.start: a cancelled timer started afterwards never calls its function.
Start(timer) == IF timer = "new" THEN "armed" ELSE timer

\* ChatBot.__init__ has run: chat_loop has not been called yet.
ChatInit ==
    /\ running = FALSE
    /\ input_queue = <<>>
    /\ chat = "init"
    /\ ended = "none"
    /\ caught = 0
    /\ listener = "off"
    /\ typed = 0
    /\ question_timer = "none"
    /\ think_timer = "none"
    /\ qcb = "none"
    /\ tcb = "none"
    /\ afterReturn = {}
    /\ orphans = 0
    /\ asked = 0

\* What a timer callback does after chat_loop has returned is recorded: the
\* output of a thought and the arming of a new timer.
Late(what) == IF chat = "returned" THEN afterReturn \cup {what} ELSE afterReturn

\* ChatBot.chat_loop up to its while loop: running is set, the listener thread
\* and both timers are started.
chatStart ==
    /\ chat = "init"
    /\ running' = TRUE
    /\ listener' = "on"
    /\ question_timer' = "armed"
    /\ think_timer' = "armed"
    /\ chat' = "loop"
    /\ UNCHANGED <<input_queue, ended, caught, typed, qcb, tcb, afterReturn>>
    /\ UNCHANGED <<orphans, asked>>
    /\ UNCHANGED notChat

\* ChatBot.input_listener: the user typed a non-empty line; it is put on the
\* queue and the current question timer is cancelled.
listen(line) ==
    /\ listener = "on"
    /\ running
    /\ typed < MaxInputs
    /\ input_queue' = Append(input_queue, line)
    /\ typed' = typed + 1
    /\ question_timer' = Cancel(question_timer)
    /\ asked' = 0
    /\ UNCHANGED <<running, chat, ended, caught, listener, think_timer, qcb, tcb, afterReturn,
                   orphans>>
    /\ UNCHANGED notChat

\* ChatBot.input_listener: prompt raised EOFError or KeyboardInterrupt; the
\* sentinel is put on the queue and the thread ends.
listenClosed ==
    /\ listener = "on"
    /\ running
    /\ input_queue' = Append(input_queue, ExitSentinel)
    /\ listener' = "off"
    /\ UNCHANGED <<running, chat, ended, caught, typed, question_timer, think_timer, qcb,
                   tcb, afterReturn>>
    /\ UNCHANGED <<orphans, asked>>
    /\ UNCHANGED notChat

\* ChatBot.process_message for one line: an exit command clears running, a clear
\* or help command is carried out, and for any other line the reply is fetched
\* and stored and then reading config.ENABLE_KNOWLEDGE_LEARNING, which
\* ChatConfig does not define, raises AttributeError.
process_message(line) ==
    CASE line \in EXIT_COMMANDS -> [running |-> FALSE, raised |-> FALSE]
      [] line \in CLEAR_COMMANDS \cup HELP_COMMANDS -> [running |-> running, raised |-> FALSE]
      [] OTHER -> [running |-> running, raised |-> ~HasAttr("ENABLE_KNOWLEDGE_LEARNING")]

\* self.question_timer after process_message(line): a command returns before
\* the timer code, and so does the AttributeError; otherwise the timer is
\* cancelled and, while running is set, a new one is created and started.
QuestionTimerAfter(line) ==
    IF line \in EXIT_COMMANDS \cup CLEAR_COMMANDS \cup HELP_COMMANDS \/ process_message(line).raised
    THEN question_timer
    ELSE IF running THEN "armed" ELSE Cancel(question_timer)

\* ChatBot.chat_loop, one turn of `while self.running` with a line on the queue:
\* the sentinel leaves the loop, any other line goes to process_message, whose
\* exceptions are caught and printed.
chatPoll ==
    /\ chat = "loop"
    /\ running
    /\ input_queue # <<>>
    /\ input_queue' = Tail(input_queue)
    /\ IF Head(input_queue) = ExitSentinel
       THEN /\ chat' = "finally"
            /\ ended' = "sentinel"
            /\ UNCHANGED <<running, caught, question_timer>>
       ELSE /\ running' = process_message(Head(input_queue)).running
            /\ caught' = IF process_message(Head(input_queue)).raised THEN caught + 1 ELSE caught
            /\ question_timer' = QuestionTimerAfter(Head(input_queue))
            /\ UNCHANGED <<chat, ended>>
    /\ UNCHANGED <<listener, typed, think_timer, qcb, tcb, afterReturn>>
    /\ UNCHANGED <<orphans, asked>>
    /\ UNCHANGED notChat

\* ChatBot.chat_loop: the while test finds running cleared (by an exit command).
chatWhileEnds ==
    /\ chat = "loop"
    /\ ~running
    /\ chat' = "finally"
    /\ ended' = "exit_command"
    /\ UNCHANGED <<running, input_queue, caught, listener, typed, question_timer,
                   think_timer, qcb, tcb, afterReturn>>
    /\ UNCHANGED <<orphans, asked>>
    /\ UNCHANGED notChat

\* ChatBot.chat_loop: KeyboardInterrupt in the main thread.
chatInterrupt ==
    /\ chat = "loop"
    /\ chat' = "finally"
    /\ ended' = "interrupt"
    /\ UNCHANGED <<running, input_queue, caught, listener, typed, question_timer,
                   think_timer, qcb, tcb, afterReturn>>
    /\ UNCHANGED <<orphans, asked>>
    /\ UNCHANGED notChat

\* ChatBot.chat_loop, the finally block: running is cleared, the timers that
\* question_timer and think_timer refer to are cancelled, and chat_loop returns.
chatFinally ==
    /\ chat = "finally"
    /\ running' = FALSE
    /\ question_timer' = Cancel(question_timer)
    /\ think_timer' = Cancel(think_timer)
    /\ chat' = "returned"
    /\ UNCHANGED <<input_queue, ended, caught, listener, typed, qcb, tcb, afterReturn>>
    /\ UNCHANGED <<orphans, asked>>
    /\ UNCHANGED notChat

\* The interval of the question timer is over: its thread calls
\* schedule_proactive_question.
questionExpires ==
    /\ question_timer = "armed"
    /\ question_timer' = "fired"
    /\ qcb' = "enter"
    /\ UNCHANGED <<running, input_queue, chat, ended, caught, listener, typed, think_timer,
                   tcb, afterReturn>>
    /\ UNCHANGED <<orphans, asked>>
    /\ UNCHANGED notChat

\* ChatBot.schedule_proactive_question: it returns when running is cleared;
\* otherwise should_ask_question_now reads config.AUTO_ASK_QUESTIONS, which
\* ChatConfig does not define, and the AttributeError ends the timer's thread
\* before a new timer is created. With the attribute it would either print a
\* question and return, or create and start a new timer without cancelling
\* the one self.question_timer refers to.
schedule_proactive_question ==
    /\ qcb = "enter"
    /\ qcb' = "none"
    /\ IF ~running \/ ~HasAttr("AUTO_ASK_QUESTIONS")
       THEN UNCHANGED <<question_timer, orphans, asked>>
       ELSE \/ /\ asked' = asked + 1
               /\ UNCHANGED <<question_timer, orphans>>
            \/ /\ question_timer' = "armed"
               /\ orphans' = IF question_timer = "armed" THEN orphans + 1 ELSE orphans
               /\ UNCHANGED asked
    /\ UNCHANGED <<running, input_queue, chat, ended, caught, listener, typed,
                   think_timer, tcb, afterReturn>>
    /\ UNCHANGED notChat

\* The interval of the think timer is over: its thread calls schedule_thinking.
thinkExpires ==
    /\ think_timer = "armed"
    /\ think_timer' = "fired"
    /\ tcb' = "enter"
    /\ UNCHANGED <<running, input_queue, chat, ended, caught, listener, typed,
                   question_timer, qcb, afterReturn>>
    /\ UNCHANGED <<orphans, asked>>
    /\ UNCHANGED notChat

\* ChatBot.schedule_thinking, `if not self.running: return`.
thinkEnter ==
    /\ tcb = "enter"
    /\ tcb' = IF running THEN "think" ELSE "none"
    /\ UNCHANGED <<running, input_queue, chat, ended, caught, listener, typed,
                   question_timer, think_timer, qcb, afterReturn>>
    /\ UNCHANGED <<orphans, asked>>
    /\ UNCHANGED notChat

\* ChatBot.think, its test: it returns at once when running is cleared or the
\* LLM client is unavailable, and otherwise asks the LLM for a thought.
thinkTest ==
    /\ tcb = "think"
    /\ \E available \in BOOLEAN :
         tcb' = IF running /\ available THEN "print" ELSE "rearm"
    /\ UNCHANGED <<running, input_queue, chat, ended, caught, listener, typed,
                   question_timer, think_timer, qcb, afterReturn>>
    /\ UNCHANGED <<orphans, asked>>
    /\ UNCHANGED notChat

\* ChatBot.think, after the LLM call: the thought is printed.
thinkPrint ==
    /\ tcb = "print"
    /\ tcb' = "rearm"
    /\ afterReturn' = Late("thought printed")
    /\ UNCHANGED <<running, input_queue, chat, ended, caught, listener, typed,
                   question_timer, think_timer, qcb>>
    /\ UNCHANGED <<orphans, asked>>
    /\ UNCHANGED notChat

\* ChatBot.schedule_thinking, `if self.running:` after think has returned.
thinkRearm ==
    /\ tcb = "rearm"
    /\ tcb' = IF running THEN "create" ELSE "none"
    /\ UNCHANGED <<running, input_queue, chat, ended, caught, listener, typed,
                   question_timer, think_timer, qcb, afterReturn>>
    /\ UNCHANGED <<orphans, asked>>
    /\ UNCHANGED notChat

\* ChatBot.schedule_thinking: the next Timer is created and think_timer refers
\* to it.
thinkCreate ==
    /\ tcb = "create"
    /\ think_timer' = "new"
    /\ tcb' = "start"
    /\ UNCHANGED <<running, input_queue, chat, ended, caught, listener, typed,
                   question_timer, qcb, afterReturn>>
    /\ UNCHANGED <<orphans, asked>>
    /\ UNCHANGED notChat

\* ChatBot.schedule_thinking, self.think_timer.start().
thinkStart ==
    /\ tcb = "start"
    /\ think_timer' = Start(think_timer)
    /\ tcb' = "none"
    /\ afterReturn' = IF think_timer = "new" THEN Late("think timer re-armed") ELSE afterReturn
    /\ UNCHANGED <<running, input_queue, chat, ended, caught, listener, typed,
                   question_timer, qcb>>
    /\ UNCHANGED <<orphans, asked>>
    /\ UNCHANGED notChat

ChatNext ==
    \/ chatStart
    \/ \E line \in Lines : listen(line)
    \/ listenClosed
    \/ chatPoll
    \/ chatWhileEnds
    \/ chatInterrupt
    \/ chatFinally
    \/ questionExpires
    \/ schedule_proactive_question
    \/ thinkExpires
    \/ thinkEnter
    \/ thinkTest
    \/ thinkPrint
    \/ thinkRearm
    \/ thinkCreate
    \/ thinkStart

(***************************************************************************)
(* ProactiveChatBot.chat_loop and the health-information dialogue          *)
(***************************************************************************)
\* The fields of user_profile that complete the basic information.
ProfileFields == {"age", "height", "weight", "gender"}

Stages == {"start", "basic_info", "diet_info", "exercise_preferences", "completed"}

\* No health_management task is stored.
HealthIdle ==
    /\ ploop = "prompt"
    /\ pended = "none"
    /\ turns = 0
    /\ has_health_task = FALSE
    /\ info_collection_stage = "start"
    /\ user_profile = {}

\* ProactiveChatBot.chat_loop waits for its first line; tasks.json may hold a
\* health_management task, at the start of its information collection.
HealthInit ==
    /\ ploop = "prompt"
    /\ pended = "none"
    /\ turns = 0
    /\ has_health_task \in BOOLEAN
    /\ info_collection_stage = "start"
    /\ user_profile = {}

\* A process_health_info that leaves "basic_info" at the first line, whatever
\* the profile holds by then.
process_health_info_unchecked(fields) ==
    IF has_health_task /\ info_collection_stage = "basic_info"
    THEN [processed |-> TRUE, raised |-> FALSE, stage |-> "diet_info",
          profile |-> user_profile \cup fields]
    ELSE [processed |-> FALSE, raised |-> FALSE, stage |-> info_collection_stage,
          profile |-> user_profile]

\* ProactiveChatBot.process_health_info for a line that mentions the profile
\* fields `fields`: whether it handled the line, the stage and profile
\* afterwards, and whether it raised. In the "diet_info" branch `re` is a local
\* name (the `import re` statement is inside the "basic_info" branch) that was
\* never bound, so re.search raises UnboundLocalError. The profile that has
\* all four fields also gets basic_info_collected.
process_health_info(fields) ==
    LET same == [processed |-> FALSE, raised |-> FALSE, stage |-> info_collection_stage,
                 profile |-> user_profile]
    IN
    CASE ~has_health_task -> same
      [] info_collection_stage = "basic_info" ->
            IF ProfileFields \subseteq (user_profile \cup fields)
            THEN [processed |-> TRUE, raised |-> FALSE, stage |-> "diet_info",
                  profile |-> user_profile \cup fields \cup {"basic_info_collected"}]
            ELSE [same EXCEPT !.profile = user_profile \cup fields]
      [] info_collection_stage = "diet_info" -> [same EXCEPT !.raised = TRUE]
      [] info_collection_stage = "exercise_preferences" ->
            [same EXCEPT !.processed = TRUE, !.stage = "completed"]
      [] OTHER -> same

\* TaskExecutor._collect_health_info: the stage after the call (only "start"
\* moves, to "basic_info").
collect_health_info(stage) == IF stage = "start" THEN "basic_info" ELSE stage

\* ProactiveChatBot.chat_loop: the user typed an exit command;
\* stop_proactive_mode is called and the loop is left.
healthExit ==
    /\ ploop = "prompt"
    /\ turns < MaxTurns
    /\ turns' = turns + 1
    /\ ploop' = "ended"
    /\ pended' = "exit_command"
    /\ UNCHANGED <<has_health_task, info_collection_stage, user_profile>>
    /\ UNCHANGED notHealth

\* ProactiveChatBot.chat_loop: the user typed a clear, help, tasks or today
\* command: it is carried out and the loop continues.
healthCommand ==
    /\ ploop = "prompt"
    /\ turns < MaxTurns
    /\ turns' = turns + 1
    /\ UNCHANGED <<ploop, pended, has_health_task, info_collection_stage, user_profile>>
    /\ UNCHANGED notHealth

\* ProactiveChatBot.chat_loop: any other line goes to process_health_info; a
\* handled line with a next stage also calls _collect_health_info, an unhandled
\* one gets a reply from get_response (which catches its own errors). An
\* exception leaves the while loop: the `except Exception` clause is outside it.
healthChat(fields) ==
    /\ ploop = "prompt"
    /\ turns < MaxTurns
    /\ turns' = turns + 1
    /\ LET r == process_health_info(fields) IN
         IF r.raised
         THEN /\ ploop' = "ended"
              /\ pended' = "error"
              /\ UNCHANGED <<info_collection_stage, user_profile>>
         ELSE /\ info_collection_stage' =
                     IF r.processed THEN collect_health_info(r.stage) ELSE r.stage
              /\ user_profile' = r.profile
              /\ UNCHANGED <<ploop, pended>>
    /\ UNCHANGED has_health_task
    /\ UNCHANGED notHealth

\* ProactiveChatBot.chat_loop: prompt raises EOFError, the input stream is
\* closed.
healthClosed ==
    /\ ploop = "prompt"
    /\ ploop' = "ended"
    /\ pended' = "input_closed"
    /\ UNCHANGED <<turns, has_health_task, info_collection_stage, user_profile>>
    /\ UNCHANGED notHealth

\* ProactiveChatBot.chat_loop: KeyboardInterrupt.
healthInterrupt ==
    /\ ploop = "prompt"
    /\ ploop' = "ended"
    /\ pended' = "interrupt"
    /\ UNCHANGED <<turns, has_health_task, info_collection_stage, user_profile>>
    /\ UNCHANGED notHealth

\* The scan thread executes the health task's action collect_health_info
\* (TaskExecutor._execute_action).
healthCollect ==
    /\ has_health_task
    /\ info_collection_stage' = collect_health_info(info_collection_stage)
    /\ info_collection_stage' # info_collection_stage
    /\ UNCHANGED <<ploop, pended, turns, has_health_task, user_profile>>
    /\ UNCHANGED notHealth

HealthNext ==
    \/ healthExit
    \/ healthCommand
    \/ \E fields \in SUBSET ProfileFields : healthChat(fields)
    \/ healthClosed
    \/ healthInterrupt
    \/ healthCollect

(***************************************************************************)
(* The context of the health task, read and written by two threads         *)
(***************************************************************************)
\* Neither thread is inside a handler of the context.
CtxIdle ==
    /\ ctx_scan = [pc |-> "out", stage |-> "start"]
    /\ ctx_chat = [pc |-> "out", stage |-> "start", fields |-> {}]

\* process_health_info after `stage = context.get(...)` gave `stage`: the
\* branch is chosen by that value, the profile is read and written in place.
process_health_info_at(stage, fields) ==
    LET same == [processed |-> FALSE, raised |-> FALSE, stage |-> info_collection_stage,
                 profile |-> user_profile]
    IN
    CASE stage = "basic_info" ->
            IF ProfileFields \subseteq (user_profile \cup fields)
            THEN [processed |-> TRUE, raised |-> FALSE, stage |-> "diet_info",
                  profile |-> user_profile \cup fields \cup {"basic_info_collected"}]
            ELSE [same EXCEPT !.profile = user_profile \cup fields]
      [] stage = "diet_info" -> [same EXCEPT !.raised = TRUE]
      [] stage = "exercise_preferences" ->
            [same EXCEPT !.processed = TRUE, !.stage = "completed"]
      [] OTHER -> same

\* The interaction thread, ProactiveChatBot.chat_loop: a line reaches
\* process_health_info, which finds the health task and reads the stage from
\* its context.
contextChatRead(fields) ==
    /\ ploop = "prompt"
    /\ turns < MaxTurns
    /\ has_health_task
    /\ ctx_chat.pc = "out"
    /\ turns' = turns + 1
    /\ ctx_chat' = [pc |-> "in", stage |-> info_collection_stage, fields |-> fields]
    /\ UNCHANGED <<ploop, pended, has_health_task, info_collection_stage, user_profile, ctx_scan>>
    /\ UNCHANGED notCtx

\* The interaction thread: the rest of process_health_info (the profile and the
\* stage are written), then, for a handled line, the direct call of
\* _collect_health_info in chat_loop. An exception leaves the loop.
contextChatWrite ==
    /\ ctx_chat.pc = "in"
    /\ LET r == process_health_info_at(ctx_chat.stage, ctx_chat.fields) IN
         IF r.raised
         THEN /\ ploop' = "ended"
              /\ pended' = "error"
              /\ UNCHANGED <<info_collection_stage, user_profile>>
         ELSE /\ info_collection_stage' =
                     IF r.processed THEN collect_health_info(r.stage) ELSE r.stage
              /\ user_profile' = r.profile
              /\ UNCHANGED <<ploop, pended>>
    /\ ctx_chat' = [pc |-> "out", stage |-> "start", fields |-> {}]
    /\ UNCHANGED <<turns, has_health_task, ctx_scan>>
    /\ UNCHANGED notCtx

\* The scan thread, execute_task on the health task: _collect_health_info reads
\* the stage from the context.
contextScanRead ==
    /\ has_health_task
    /\ ctx_scan.pc = "out"
    /\ ctx_scan' = [pc |-> "in", stage |-> info_collection_stage]
    /\ UNCHANGED <<healthVars, ctx_chat>>
    /\ UNCHANGED notCtx

\* The scan thread: the rest of _collect_health_info, the write of the stage
\* that follows the one it read.
contextScanWrite ==
    /\ ctx_scan.pc = "in"
    /\ info_collection_stage' =
           IF ctx_scan.stage = "start" THEN collect_health_info(ctx_scan.stage)
           ELSE info_collection_stage
    /\ ctx_scan' = [pc |-> "out", stage |-> "start"]
    /\ UNCHANGED <<ploop, pended, turns, has_health_task, user_profile, ctx_chat>>
    /\ UNCHANGED notCtx

CtxNext ==
    \/ \E fields \in SUBSET ProfileFields : contextChatRead(fields)
    \/ contextChatWrite
    \/ contextScanRead
    \/ contextScanWrite

(***************************************************************************)
(* ChatEventSystem: the idle-output loop                                   *)
(***************************************************************************)
\* The instants at which ChatEventSystem reads the clock, in seconds since its
\* construction, in order.
EsInstants == <<0, 5, 3570, 3598, 3600, 3660, 7200, 7260, 10800>>

EsNow == EsInstants[es_clock]

\* asyncio.sleep(3600) in _auto_output_task.
AutoOutputInterval == 3600

\* The idle thresholds in use: the default of __init__ and the one
\* test_auto_output sets.
DefaultIdleThreshold == 30
Thresholds == {2, DefaultIdleThreshold}

\* ChatEventSystem.__init__ has run: _start_background_tasks has created the
\* task of _auto_output_task without keeping a reference to it in self.tasks.
IdleInit ==
    /\ es_running = FALSE
    /\ es_tasks = <<>>
    /\ idle_threshold = DefaultIdleThreshold
    /\ es_last_input = None
    /\ es_clock = 1
    /\ auto = [alive |-> TRUE, wake |-> AutoOutputInterval]
    /\ auto_outputs = <<>>
    /\ sent_since = 0
    /\ idle_periods = {}

\* ChatEventSystem._should_auto_output.
should_auto_output ==
    IF es_last_input = None THEN FALSE
    ELSE EsNow - es_last_input[1] > idle_threshold

\* ChatEventSystem.start.
esStart ==
    /\ ~es_running
    /\ es_running' = TRUE
    /\ UNCHANGED <<es_tasks, idle_threshold, es_last_input, es_clock, auto, auto_outputs,
                   sent_since, idle_periods>>
    /\ UNCHANGED notIdle

\* ChatEventSystem.stop: running is cleared and every task in self.tasks is
\* cancelled; the task of _auto_output_task is not among them.
esStop ==
    /\ es_running
    /\ es_running' = FALSE
    /\ auto' = [auto EXCEPT !.alive = IF \E k \in 1..Len(es_tasks) : es_tasks[k] = "auto_output"
                                      THEN FALSE ELSE @]
    /\ UNCHANGED <<es_tasks, idle_threshold, es_last_input, es_clock, auto_outputs,
                   sent_since, idle_periods>>
    /\ UNCHANGED notIdle

\* ChatEventSystem.set_idle_threshold, called before the first user input (as
\* test_auto_output does).
set_idle_threshold(seconds) ==
    /\ es_last_input = None
    /\ idle_threshold # seconds
    /\ idle_threshold' = seconds
    /\ UNCHANGED <<es_running, es_tasks, es_last_input, es_clock, auto, auto_outputs,
                   sent_since, idle_periods>>
    /\ UNCHANGED notIdle

\* ChatEventSystem.emit_user_input: _handle_user_input records the time of the
\* input. The idle period that ends here is noted with the number of proactive
\* outputs it saw.
emit_user_input ==
    /\ es_last_input' = Some(EsNow)
    /\ sent_since' = 0
    /\ idle_periods' = IF es_last_input = None THEN idle_periods
                       ELSE idle_periods \cup {[from |-> es_last_input[1], to |-> EsNow,
                                                threshold |-> idle_threshold,
                                                sent |-> sent_since]}
    /\ UNCHANGED <<es_running, es_tasks, idle_threshold, es_clock, auto, auto_outputs>>
    /\ UNCHANGED notIdle

\* ChatEventSystem._auto_output_task, one turn of its loop: the sleep is over,
\* and a proactive output is emitted when _should_auto_output says so.
autoWake ==
    /\ auto.alive
    /\ EsNow >= auto.wake
    /\ auto' = [auto EXCEPT !.wake = EsNow + AutoOutputInterval]
    /\ IF should_auto_output
       THEN /\ auto_outputs' = Append(auto_outputs,
                                      [at |-> EsNow, since |-> es_last_input[1],
                                       threshold |-> idle_threshold, running |-> es_running])
            /\ sent_since' = sent_since + 1
       ELSE UNCHANGED <<auto_outputs, sent_since>>
    /\ UNCHANGED <<es_running, es_tasks, idle_threshold, es_last_input, es_clock, idle_periods>>
    /\ UNCHANGED notIdle

\* Time passes for ChatEventSystem; a sleep that is over ends before it does.
esTick ==
    /\ es_clock < MaxIdleClock
    /\ ~(auto.alive /\ EsNow >= auto.wake)
    /\ es_clock' = es_clock + 1
    /\ UNCHANGED <<es_running, es_tasks, idle_threshold, es_last_input, auto, auto_outputs,
                   sent_since, idle_periods>>
    /\ UNCHANGED notIdle

IdleNext ==
    \/ esStart
    \/ esStop
    \/ \E seconds \in Thresholds : set_idle_threshold(seconds)
    \/ emit_user_input
    \/ autoWake
    \/ esTick

(***************************************************************************)
(* User input handling: ChatBot.process_message and                        *)
(* ChatEventSystem._handle_user_input, with ChatBot.get_response            *)
(***************************************************************************)
\* ChatConfig.MAX_HISTORY_LENGTH.
MAX_HISTORY_LENGTH == 100

\* The lines handed to a handler: a message (it contains "hello"), an exit
\* command, a clear command typed with a capital, the help command bare, with
\* surrounding blanks and with a slash.
UserInputs == {"hello", "quit", "Clear", "help", " help ", "/help"}

\* str.strip on those lines.
Strip(line) == IF line = " help " THEN "help" ELSE line

\* str.lower on those lines.
Lower(line) == IF line = "Clear" THEN "clear" ELSE line

\* The literal lists _handle_user_input compares the input with.
HandlerHelpWords == {"/help", "help"}
HandlerClearWords == {"/clear", "clear"}

\* LLMClient as get_response finds it: it answers, is_available is False,
\* chat_completion returns None (it catches its own errors), or building the
\* request raises inside get_response.
LlmStates == {"ok", "unavailable", "no_reply", "raises"}

\* The texts get_response returns without an answer of the model.
Apologies == {"sorry: service unavailable", "sorry: cannot reply", "sorry: problem"}

\* ChatBot.get_response: every failure is turned into a returned apology.
get_response(state) ==
    CASE state = "ok" -> "reply"
      [] state = "unavailable" -> "sorry: service unavailable"
      [] state = "no_reply" -> "sorry: cannot reply"
      [] state = "raises" -> "sorry: problem"

\* An add_to_history that cuts the list to its first MAX_HISTORY_LENGTH entries.
add_to_history_keep_first(history, user, bot) ==
    LET h == Append(history, [user |-> user, bot |-> bot]) IN
    IF Len(h) > MAX_HISTORY_LENGTH THEN SubSeq(h, 1, MAX_HISTORY_LENGTH) ELSE h

\* ChatBot.add_to_history: the entry is appended and the list cut to its last
\* MAX_HISTORY_LENGTH entries.
add_to_history(history, user, bot) ==
    LET h == Append(history, [user |-> user, bot |-> bot]) IN
    IF Len(h) > MAX_HISTORY_LENGTH
    THEN SubSeq(h, Len(h) - MAX_HISTORY_LENGTH + 1, Len(h))
    ELSE h

\* A _process_user_message that has no reply when the responder has none.
process_user_message_or_nothing(line, state) ==
    IF state = "ok" THEN <<"reply">> ELSE <<>>

\* ChatEventSystem._process_user_message: the reply of get_response, then the
\* extra replies the words of the input call for.
process_user_message(line, state) ==
    <<get_response(state)>> \o (IF line = "hello" THEN <<"glad to chat">> ELSE <<>>)

\* One published event.
Event(type, content) == [type |-> type, content |-> content]

\* emit_bot_output for each response, in order.
RECURSIVE BotOutputs(_)
BotOutputs(responses) ==
    IF responses = <<>> THEN <<>>
    ELSE <<Event("bot_output", Head(responses))>> \o BotOutputs(Tail(responses))

\* Nothing handled yet; the model answers.
InputIdle ==
    /\ llm = "ok"
    /\ chat_history = <<>>
    /\ get_response_calls = 0
    /\ handled = [n |-> 0, handler |-> "none", line |-> "", action |-> "none",
                  out |-> <<>>, escaped |-> FALSE]

\* What one run of a handler left behind.
Handled(handler, line, action, out, escaped) ==
    [n |-> handled.n + 1, handler |-> handler, line |-> line, action |-> action,
     out |-> out, escaped |-> escaped]

\* The responder starts or stops working.
responder_becomes(state) ==
    /\ llm # state
    /\ llm' = state
    /\ UNCHANGED <<chat_history, get_response_calls, handled>>
    /\ UNCHANGED <<chatVars, idleVars>>
    /\ UNCHANGED notInput

\* ChatBot.process_message(line), the whole method: the three command checks on
\* line.lower(); for any other line the reply of get_response is printed and
\* stored, and reading config.ENABLE_KNOWLEDGE_LEARNING then raises.
handle_process_message(line) ==
    /\ handled.n < MaxHandled
    /\ running' = process_message(Lower(line)).running
    /\ CASE Lower(line) \in EXIT_COMMANDS ->
              /\ handled' = Handled("process_message", line, "exit",
                                    <<Event("print", "goodbye")>>, FALSE)
              /\ UNCHANGED <<chat_history, get_response_calls>>
         [] Lower(line) \in CLEAR_COMMANDS ->
              /\ chat_history' = <<>>
              /\ handled' = Handled("process_message", line, "clear",
                                    <<Event("print", "history cleared")>>, FALSE)
              /\ UNCHANGED get_response_calls
         [] Lower(line) \in HELP_COMMANDS ->
              /\ handled' = Handled("process_message", line, "help",
                                    <<Event("print", "help text")>>, FALSE)
              /\ UNCHANGED <<chat_history, get_response_calls>>
         [] OTHER ->
              /\ get_response_calls' = get_response_calls + 1
              /\ chat_history' = add_to_history(chat_history, line, get_response(llm))
              /\ handled' = Handled("process_message", line, "respond",
                                    <<Event("print", get_response(llm))>>,
                                    process_message(Lower(line)).raised)
    /\ question_timer' = QuestionTimerAfter(Lower(line))
    /\ UNCHANGED llm
    /\ UNCHANGED <<input_queue, chat, ended, caught, listener, typed, think_timer, qcb, tcb,
                   afterReturn, orphans, asked>>
    /\ UNCHANGED idleVars
    /\ UNCHANGED notInput

\* ChatEventSystem._handle_user_input for an event with this content, the whole
\* handler: the time of the input is recorded, the help and clear words are
\* looked up in the handler's own lists, and any other input goes to
\* _process_user_message between a BOT_THINKING event and the BOT_OUTPUT events
\* of the replies. emit_error is reached only by an exception of
\* _process_user_message, and get_response lets none out.
handle_user_input(line) ==
    /\ handled.n < MaxHandled
    /\ es_last_input' = Some(EsNow)
    /\ CASE Lower(Strip(line)) \in HandlerHelpWords ->
              /\ handled' = Handled("_handle_user_input", line, "help",
                                    <<Event("bot_output", "help text")>>, FALSE)
              /\ UNCHANGED <<chat_history, get_response_calls>>
         [] Lower(Strip(line)) \in HandlerClearWords ->
              /\ chat_history' = <<>>
              /\ handled' = Handled("_handle_user_input", line, "clear",
                                    <<Event("bot_output", "history cleared")>>, FALSE)
              /\ UNCHANGED get_response_calls
         [] OTHER ->
              /\ get_response_calls' = get_response_calls + 1
              /\ handled' = Handled("_handle_user_input", line, "respond",
                                    <<Event("bot_thinking", "thinking")>>
                                        \o BotOutputs(process_user_message(Strip(line), llm)),
                                    FALSE)
              /\ UNCHANGED chat_history
    /\ UNCHANGED llm
    /\ UNCHANGED <<es_running, es_tasks, idle_threshold, es_clock, auto, auto_outputs,
                   sent_since, idle_periods>>
    /\ UNCHANGED chatVars
    /\ UNCHANGED notInput

\* The number of the next message: one more than that of the newest entry.
NextMessage == IF chat_history = <<>> THEN 1 ELSE chat_history[Len(chat_history)].user + 1

\* add_to_history called on its own (ChatBot's, and ProactiveChatBot's, which
\* differs only by a field is_proactive in the entry) with the next message.
call_add_to_history ==
    /\ NextMessage <= MaxAdds
    /\ chat_history' = add_to_history(chat_history, NextMessage, "reply")
    /\ args' = [fn |-> "add_to_history", user |-> NextMessage, bot |-> "reply"]
    /\ UNCHANGED <<result, llm, get_response_calls, handled>>
    /\ UNCHANGED <<busVars, storeVars, scanVars, chatVars, healthVars, idleVars, ctxVars>>

\* clear_history called on its own.
call_clear_history ==
    /\ chat_history # <<>>
    /\ chat_history' = <<>>
    /\ args' = [fn |-> "clear_history"]
    /\ UNCHANGED <<result, llm, get_response_calls, handled>>
    /\ UNCHANGED <<busVars, storeVars, scanVars, chatVars, healthVars, idleVars, ctxVars>>

HistoryNext ==
    \/ call_add_to_history
    \/ call_clear_history

InputNext ==
    \/ \E state \in LlmStates : responder_becomes(state)
    \/ \E line \in UserInputs : handle_process_message(line)
    \/ \E line \in UserInputs : handle_user_input(line)

(***************************************************************************)
(* Specifications                                                          *)
(***************************************************************************)
\* Every object constructed, nothing started.
InitAll ==
    BusInit /\ StoreInit /\ ScanIdle /\ ChatInit /\ HealthIdle /\ IdleInit /\ CallIdle /\ InputIdle /\ CtxIdle

\* ProactiveChatBot constructed: the stored tasks loaded, its threads started.
InitScan == BusInit /\ ScanInit /\ ChatInit /\ HealthIdle /\ IdleInit /\ CallIdle /\ InputIdle /\ CtxIdle

\* ProactiveChatBot.chat_loop entered, with or without a stored health task.
InitHealth ==
    BusInit /\ StoreInit /\ ScanIdle /\ ChatInit /\ HealthInit /\ IdleInit /\ CallIdle /\ InputIdle /\ CtxIdle

\* One "time:HH:MM" trigger and one scan time.
InitTime ==
    BusInit /\ StoreInit /\ ScanIdle /\ ChatInit /\ HealthIdle /\ IdleInit /\ TimeCallInit /\ InputIdle /\ CtxIdle

\* EventQueue: subscribe and publish.
SpecBus == InitAll /\ [][BusNext]_vars

\* The TaskManager operations called one after another by one caller.
SpecStore == InitAll /\ [][StoreNext]_vars

\* The TaskManager operations on tasks with startup, idle_check and several
\* triggers, called one after another by one caller.
SpecTrigger == InitAll /\ [][TriggerNext]_vars

\* The test of a time trigger for each hour, minute and scan time.
SpecTime == InitTime /\ [][TimeNext]_vars

\* ProactiveChatBot running: its two scan threads and its main thread.
SpecScan == InitScan /\ [][ScanNext]_vars

\* The running program: the user never leaves, time has no end, and every
\* thread that can take a step eventually takes one, so the loops run for ever.
RunningNext ==
    \/ MonNext
    \/ ProNext
    \/ chatLoopPop
    \/ userInput
    \/ scanTick
    \/ scanLater

FairScan ==
    /\ InitScan
    /\ [][RunningNext]_vars
    /\ WF_vars(MonNext)
    /\ WF_vars(ProNext)
    /\ WF_vars(scanLater)

\* ChatBot.chat_loop with its listener thread and its timers.
SpecChat == InitAll /\ [][ChatNext]_vars

\* ProactiveChatBot.chat_loop and the health-information dialogue.
SpecHealth == InitHealth /\ [][HealthNext]_vars

\* ChatEventSystem: user inputs, the idle-output loop, start and stop.
SpecIdle == InitAll /\ [][IdleNext]_vars

\* The two threads that use the context of the health task.
SpecContext == InitHealth /\ [][CtxNext]_vars

\* TaskManager with several tasks: add_task, check_triggers and the clock.
SpecMany == InitAll /\ [][ManyNext]_vars

\* add_to_history and clear_history called one after another.
SpecHistory == InitAll /\ [][HistoryNext]_vars

\* The two message handlers called with one line after another.
SpecInput == InitAll /\ [][InputNext]_vars

(***************************************************************************)
(* Claims                                                                  *)
(***************************************************************************)
EventTypeOf(e) == queue[e].type

WasDelivered(e, p) == \E k \in 1..Len(delivered) : delivered[k] = [ev |-> e, pos |-> p]

\* C1: publish isolation. Whenever publish(event) has returned, every handler
\* subscribed to the event's type was invoked with the event, also the ones
\* registered after a handler that raised, and no exception ever leaves publish.
C1_PublishIsolation ==
    /\ ~raisedOut
    /\ \A e \in returned :
         \A p \in 1..Len(subscribers[EventTypeOf(e)]) : WasDelivered(e, p)

\* C1 witness: a publish returned for an event with three subscribers, the
\* second of which raised, and the third was still invoked.
C1_Witness ==
    \E e \in returned :
        /\ Len(subscribers[EventTypeOf(e)]) = 3
        /\ subscribers[EventTypeOf(e)][2] = "raise"
        /\ WasDelivered(e, 3)

StatusChange(i) == <<tasks[i].status, tasks'[i].status>>

\* C4 (as claimed): every change of a task's status is PENDING->ACTIVE,
\* ACTIVE->COMPLETED, ACTIVE->FAILED or PENDING->CANCELLED.
C4_OnlyLifecycleTransitions ==
    [][\A i \in 1..Len(tasks) :
          tasks'[i].status # tasks[i].status =>
              StatusChange(i) \in { <<"pending", "active">>, <<"active", "completed">>,
                                    <<"active", "failed">>, <<"pending", "cancelled">> }]_vars

\* C4 (amended): a status change made by check_triggers is PENDING->ACTIVE, one
\* made by reset_daily_tasks is COMPLETED->PENDING on a DAILY task, add_task
\* changes no stored task's status; every other change is update_task_status
\* setting the status it was given.
C4_TransitionsByOperation ==
    [][\A i \in 1..Len(tasks) :
          tasks'[i].status # tasks[i].status =>
              \/ lastOp' = "check_triggers" /\ StatusChange(i) = <<"pending", "active">>
              \/ /\ lastOp' = "reset_daily_tasks"
                 /\ StatusChange(i) = <<"completed", "pending">>
                 /\ tasks[i].task_type = "daily"
              \/ lastOp' = "update_task_status"]_vars

\* C4 witness: reset_daily_tasks has just moved a task from COMPLETED back to
\* PENDING (the task was completed on an earlier day).
C4_Witness ==
    /\ lastOp = "reset_daily_tasks"
    /\ \E i \in 1..Len(tasks) : <<i, "completed", "pending">> \in changed

\* C5 (as claimed): completed_at is set if and only if status is COMPLETED.
C5_CompletedAtIffCompleted ==
    \A i \in 1..Len(tasks) :
        (tasks[i].completed_at # None) <=> (tasks[i].status = "completed")

\* C2 (as claimed): a task with a time:HH:MM trigger is activated (set ACTIVE and
\* returned by check_triggers) at most once within 120 seconds, whatever the
\* interleaving of the two scan loops.
C2_TimeTriggerActivatesOnce ==
    \A a \in scans : \A b \in scans :
        (a[2] = b[2] /\ Abs(a[3] - b[3]) <= 120) => a = b

\* Executions of execute_task in which the dedupe suppressed every action.
OnlyRepeats(e) == e.results = <<>> /\ e.deduped # {}

\* C3 (as claimed): an execution whose every action is a repeat within the same
\* clock hour produces no message for the user.
C3_RepeatEmitsNothing ==
    \A k \in 1..Len(emitted) :
        emitted[k].exec # 0 => ~OnlyRepeats(execs[emitted[k].exec])

\* C6 (as claimed): once stop_proactive_mode has returned, no loop scans,
\* executes a task or sends proactive output.
C6_NoFireAfterStop == afterStop = {}

Executed(i) == \E k \in 1..Len(execs) : execs[k].task = i

\* C7 (as claimed): every task a trigger scan activates is eventually executed
\* by execute_task.
C7_ActivatedEventuallyExecuted ==
    \A i \in 1..NumStored : (tasks[i].status = "active") ~> Executed(i)

\* C8 (as claimed): when chat_loop takes the "__EXIT__" sentinel from the queue
\* it leaves its loop in that turn and returns, and after it has returned no
\* question-timer or think-timer callback prints its output or arms a new timer.
C8_SentinelStopsLoopAndTimers ==
    /\ ended = "sentinel" => chat \in {"finally", "returned"}
    /\ (ended = "sentinel" /\ chat = "returned") => afterReturn = {}

\* C9 (as claimed): ChatBot.chat_loop and ProactiveChatBot.chat_loop end only
\* on an exit command or when the input closes (sentinel, EOF, interrupt); an
\* error raised while a line is handled never ends them.
C9_LoopEndsOnlyOnExitOrClosure ==
    /\ ended \in {"none", "exit_command", "sentinel", "interrupt"}
    /\ pended \in {"none", "exit_command", "input_closed", "interrupt"}

\* C10 (as claimed): the idle-output loop emits no proactive message while the
\* idle time is at most the threshold, and an idle period that went over the
\* threshold has had its proactive message by the time the next user input
\* ends it.
C10_IdleOutputBoundary ==
    /\ \A k \in 1..Len(auto_outputs) :
          auto_outputs[k].at - auto_outputs[k].since > auto_outputs[k].threshold
    /\ \A p \in idle_periods : p.to - p.from > p.threshold => p.sent >= 1

\* The position in `delivered` of the invocation of handler p with event e
\* (0 when the handler has not been invoked with it).
DeliveryIndex(e, p) ==
    IF WasDelivered(e, p)
    THEN CHOOSE k \in 1..Len(delivered) : delivered[k] = [ev |-> e, pos |-> p]
    ELSE 0

\* C11 (as claimed): per-type publish order. Of two events of the same type,
\* every subscriber of the type is invoked with the one published first before
\* it is invoked with the other, also when the second was published by a
\* handler while the first was still being dispatched.
C11_PerTypePublishOrder ==
    \A k \in 1..Len(delivered) :
        \A e1 \in 1..(delivered[k].ev - 1) :
            EventTypeOf(e1) = EventTypeOf(delivered[k].ev) =>
                /\ WasDelivered(e1, delivered[k].pos)
                /\ DeliveryIndex(e1, delivered[k].pos) < k

\* C12 (as claimed): queue-drain dispatch. An event a handler publishes while
\* another event is being dispatched reaches no handler before the current
\* event has reached all of its handlers: the deliveries follow the order of
\* the publishes.
C12_QueueDrainDispatch ==
    \A k \in 1..Len(delivered) :
        \A l \in (k + 1)..Len(delivered) : delivered[k].ev <= delivered[l].ev

\* A scan loop takes the step of check_triggers that looks at task i.
ScanStepOn(th, next, i) ==
    /\ th.pc = "scan"
    /\ th.pending # <<>>
    /\ Head(th.pending) = i
    /\ next # th

\* The instant is within 60 seconds of 09:00:00 of its day.
Near0900(t) == Abs(t - HMS(DayOf(t), 9, 0, 0)) <= 60

\* The messages shown to the user that came from an execution of task i.
EmittedFor(i) ==
    {k \in 1..Len(emitted) : emitted[k].exec # 0 /\ execs[emitted[k].exec].task = i}

SecondOfDay(t) == t % (24 * 3600)

\* C14: a time:HH:MM trigger matches at the scan time `now` if and only if now
\* is at most 60 seconds away from HH:MM:00 of the same day, for every hour,
\* minute and scan time, also around midnight.
C14_TimeTriggerWindow ==
    (args.fn = "time_trigger" /\ result # None) =>
        (result[1] <=>
            Abs(SecondOfDay(args.now) - (args.hour * 3600 + args.minute * 60)) <= 60)

\* C14 witness: the trigger matched at exactly 60 seconds from its time.
C14_Witness ==
    /\ args.fn = "time_trigger"
    /\ result = Some(TRUE)
    /\ Abs(SecondOfDay(args.now) - (args.hour * 3600 + args.minute * 60)) = 60

\* A step of check_triggers (called directly).
CheckStep == lastOp' = "check_triggers" /\ clock' = clock

\* check_triggers activates task i in this step through a trigger of the kind.
ActivatedBy(i, kind) ==
    /\ tasks[i].status = "pending"
    /\ tasks'[i].status = "active"
    /\ FiredBy(tasks[i], Now) = kind

\* C15 (as claimed): a startup trigger is true once, on the first evaluation
\* after the start: once a scan has activated a task through a startup
\* trigger, no later scan activates a task through one.
C15_StartupOnlyOnce ==
    [][(CheckStep /\ startup_fired) =>
           \A i \in 1..Len(tasks) : ~ActivatedBy(i, "startup")]_vars

\* C16 (as claimed): an idle_check trigger activates tasks only in scans at
\* minute 0, and in at most one scan of each clock hour.
C16_IdleCheckOncePerHour ==
    [][CheckStep =>
           \A i \in 1..Len(tasks) :
               ActivatedBy(i, "idle_check") =>
                   MinuteOf(Now) = 0 /\ ClockHour(Now) \notin idle_fired]_vars

\* The number of times a task is in a list.
Count(i, list) == Cardinality({k \in 1..Len(list) : list[k] = i})

\* C17: check_triggers activates exactly the tasks that are PENDING and have at
\* least one matching trigger; each of them is in the returned list once, also
\* when several of its triggers match; every other task is left unchanged and
\* is not in the list.
C17_ScanActivatesPendingMatchingOnce ==
    [][CheckStep =>
           /\ Len(tasks') = Len(tasks)
           /\ \A i \in 1..Len(tasks) :
                 IF tasks[i].status = "pending" /\ Matching(tasks[i], Now) # {}
                 THEN /\ tasks'[i] = [tasks[i] EXCEPT !.status = "active"]
                      /\ Count(i, triggered') = 1
                 ELSE /\ tasks'[i] = tasks[i]
                      /\ Count(i, triggered') = 0]_vars

\* C17 witness: check_triggers at 09:00:45 has returned, in a list of one, a
\* task with two triggers that both match at that time.
C17_Witness ==
    /\ lastOp = "check_triggers"
    /\ Now = HMS(0, 9, 0, 45)
    /\ \E i \in 1..Len(tasks) :
          /\ triggered = <<i>>
          /\ tasks[i].status = "active"
          /\ Cardinality(Matching(tasks[i], Now)) = 2

\* C18: reset_daily_tasks turns every DAILY task that is COMPLETED with
\* completed_at on an earlier day back to PENDING and clears its completed_at,
\* leaves every other task as it is, and a second call right after the first
\* would change nothing.
C18_ResetDailyIdempotent ==
    [][(lastOp' = "reset_daily_tasks" /\ clock' = clock) =>
           /\ Len(tasks') = Len(tasks)
           /\ \A i \in 1..Len(tasks) :
                 IF /\ tasks[i].task_type = "daily"
                    /\ tasks[i].status = "completed"
                    /\ tasks[i].completed_at # None
                    /\ DayOf(tasks[i].completed_at[1]) < DayOf(Now)
                 THEN tasks'[i] = [tasks[i] EXCEPT !.status = "pending",
                                                   !.completed_at = None]
                 ELSE tasks'[i] = tasks[i]
           /\ ResetDaily(tasks', Now) = tasks']_vars

\* C18 witness: reset_daily_tasks has just reset a task: it is PENDING again
\* and its completed_at is cleared.
C18_Witness ==
    /\ lastOp = "reset_daily_tasks"
    /\ \E i \in 1..Len(tasks) :
          /\ <<i, "completed", "pending">> \in changed
          /\ tasks[i].task_type = "daily"
          /\ tasks[i].completed_at = None

\* The words of the configured exit, clear and help command sets.
CommandWords == EXIT_COMMANDS \cup CLEAR_COMMANDS \cup HELP_COMMANDS

\* A step in which one of the two handlers ran on one input.
HandlerStep == handled'.n = handled.n + 1

\* C19: whenever a message handler (ChatBot.process_message or
\* ChatEventSystem._handle_user_input) runs on an input whose lower-cased text
\* is an exit, clear or help command, get_response is not called, no entry is
\* added to the chat history, and the handler performs the command's action.
C19_CommandsShortCircuit ==
    [][(HandlerStep /\ Lower(handled'.line) \in CommandWords) =>
            /\ get_response_calls' = get_response_calls
            /\ chat_history' \in {chat_history, <<>>}
            /\ handled'.action \in {"exit", "clear", "help"}]_vars

\* C20: whenever _handle_user_input passes an input to the responder while the
\* responder is unavailable or fails, the events it publishes include an ERROR
\* event and no BOT_OUTPUT event carrying the failure, and no exception leaves
\* the handler.
C20_ResponderFailureIsErrorEvent ==
    [][(/\ HandlerStep
        /\ handled'.handler = "_handle_user_input"
        /\ handled'.action = "respond"
        /\ llm # "ok") =>
            /\ \E k \in 1..Len(handled'.out) : handled'.out[k].type = "error"
            /\ \A k \in 1..Len(handled'.out) :
                   handled'.out[k].type = "bot_output" => handled'.out[k].content \notin Apologies
            /\ ~handled'.escaped]_vars

\* C21 (as claimed): the ids of the tasks in the store are pairwise distinct.
C21_TaskIdsDistinct ==
    \A i \in 1..Len(tasks) : \A j \in 1..Len(tasks) : tasks[i].id = tasks[j].id => i = j

\* A trigger of the task that parses and matches at `t`.
ValidMatch(task, t) ==
    \E k \in 1..Len(task.triggers) :
        ~Malformed(task.triggers[k]) /\ TriggerMatches(task.triggers[k], t)

\* C24: in a scan, a malformed trigger is skipped: a PENDING task becomes ACTIVE
\* (and is returned) exactly when one of its well-formed triggers matches, also
\* when a malformed trigger stands before it; no task is set to FAILED; and the
\* tasks after a task with a malformed trigger are evaluated in the same way.
C24_MalformedTriggerSkipped ==
    [][CheckStep =>
           /\ Len(tasks') = Len(tasks)
           /\ \A i \in 1..Len(tasks) :
                 /\ tasks'[i].status # "failed"
                 /\ IF tasks[i].status = "pending" /\ ValidMatch(tasks[i], Now)
                    THEN tasks'[i].status = "active" /\ Count(i, triggered') = 1
                    ELSE tasks'[i] = tasks[i] /\ Count(i, triggered') = 0]_vars

\* C24 happens: a scan has activated a task whose first trigger is malformed
\* through its second trigger, and the task after it as well.
C24_Witness ==
    /\ lastOp = "check_triggers"
    /\ Len(tasks) = 2
    /\ Malformed(tasks[1].triggers[1])
    /\ triggered = <<1, 2>>
    /\ changed = {<<1, "pending", "active">>, <<2, "pending", "active">>}

\* C22 (as claimed): at most one trigger scan is active: the thread of
\* TaskManager._monitor_loop and the thread of _proactive_monitor are never
\* both inside check_triggers.
C22_AtMostOneActiveScan == ~(mon.pc = "scan" /\ pro.pc = "scan")

\* How many entries of a list of messages come from execution k.
FromExec(list, k) == Cardinality({n \in 1..Len(list) : list[n].exec = k})

\* C28 (as claimed): the message of every execution of a triggered task is
\* shown to the user at most once, and while it has not been shown it is still
\* in proactive_messages.
C28_ProactiveMessageExactlyOnce ==
    \A k \in 1..Len(execs) :
        /\ FromExec(emitted, k) <= 1
        /\ FromExec(emitted, k) = 0 => FromExec(proactive_messages, k) >= 1

\* The stages of the collection in their order.
StageOrder == <<"start", "basic_info", "diet_info", "exercise_preferences", "completed">>

StageIndex(stage) == CHOOSE n \in 1..Len(StageOrder) : StageOrder[n] = stage

\* C30: whenever _collect_health_info or process_health_info changes the stage
\* of the health_management task, the new stage is the one that follows the old
\* one in start, basic_info, diet_info, exercise_preferences, completed; and
\* when the stage leaves basic_info, basic_info_collected has been set.
C30_StageOnlyForward ==
    [][info_collection_stage' # info_collection_stage =>
           /\ StageIndex(info_collection_stage') = StageIndex(info_collection_stage) + 1
           /\ info_collection_stage = "basic_info" => "basic_info_collected" \in user_profile']_vars

\* C30 happens: the collection has gone from start through basic_info to
\* diet_info.
C30_Witness ==
    /\ info_collection_stage = "diet_info"
    /\ "basic_info_collected" \in user_profile

\* C23 (as claimed): the interaction thread (process_health_info and the direct
\* _collect_health_info call) and the scan thread (the action handler run from
\* execute_task) are never both between their read and their write of the
\* health task's context.
C23_ContextMutationsExclusive == ~(ctx_scan.pc = "in" /\ ctx_chat.pc = "in")

\* C25 (as claimed): once publish(event) has returned, the bus holds no copy of
\* the event: it is not on the bus's queue.
C25_NoEventRetained ==
    \A e \in returned : \A k \in 1..Len(queue) : queue[k].id # e

\* C29: the chat history never holds more than MAX_HISTORY_LENGTH entries, and
\* after add_to_history it holds the newest entries of the old history followed
\* by the new entry, in their order: what is dropped is dropped from the front.
C29_HistoryKeepsNewest ==
    [][/\ Len(chat_history') <= MAX_HISTORY_LENGTH
       /\ args'.fn = "add_to_history" =>
            LET full == Append(chat_history, [user |-> args'.user, bot |-> args'.bot])
                kept == Len(chat_history')
            IN /\ kept = IF Len(full) > MAX_HISTORY_LENGTH THEN MAX_HISTORY_LENGTH ELSE Len(full)
               /\ \A k \in 1..kept : chat_history'[k] = full[Len(full) - kept + k]]_vars

\* C29 happens: an add_to_history call on a full history has dropped the oldest
\* entry.
C29_Witness ==
    /\ args.fn = "add_to_history"
    /\ Len(chat_history) = MAX_HISTORY_LENGTH
    /\ chat_history[1].user = 2
    /\ chat_history[MAX_HISTORY_LENGTH].user = MAX_HISTORY_LENGTH + 1

\* The events of one type among those a handler published.
OfType(out, type) == {k \in 1..Len(out) : out[k].type = type}

\* C26: whenever _handle_user_input runs on an input that is neither a help nor
\* a clear word, the events it publishes before it returns are one BOT_THINKING
\* event, first, followed by BOT_OUTPUT or ERROR events, at least one of them;
\* without an ERROR event there is at least one BOT_OUTPUT event.
C26_ThinkingThenOutput ==
    [][(/\ HandlerStep
        /\ handled'.handler = "_handle_user_input"
        /\ Lower(Strip(handled'.line)) \notin HandlerHelpWords \cup HandlerClearWords) =>
            LET out == handled'.out IN
            /\ Len(out) >= 2
            /\ OfType(out, "bot_thinking") = {1}
            /\ \A k \in 2..Len(out) : out[k].type \in {"bot_output", "error"}
            /\ OfType(out, "error") = {} => OfType(out, "bot_output") # {}
            /\ ~handled'.escaped]_vars

\* C26 happens: an input that is no command was answered with the thinking
\* event and two replies while the responder was failing.
C26_Witness ==
    /\ handled.handler = "_handle_user_input"
    /\ handled.line = "hello"
    /\ llm = "no_reply"
    /\ Len(handled.out) = 3
    /\ handled.out[1].type = "bot_thinking"
    /\ handled.out[2] = Event("bot_output", "sorry: cannot reply")

\* The question timers that are armed, and the callback of one that has fired
\* and may still start the next.
LiveQuestionTimers ==
    (IF question_timer = "armed" THEN 1 ELSE 0) + orphans + (IF qcb = "enter" THEN 1 ELSE 0)

====
